---- MODULE Spec2Model ----
(***************************************************************************)
(* Verification model of kicad-parser-rs: the nom-based s-expression       *)
(* parser (src/sexpr/parse_sexpr.rs), the front-consumable list cursor     *)
(* (src/sexpr/sexpr_list.rs) and the typed conversions that build the      *)
(* board model (src/pcb_file, src/common).                                 *)
(*                                                                         *)
(* Text is a sequence of one-character strings.  Numbers of the input      *)
(* alphabet are decimal integers, so an f64 is modelled by an integer.     *)
(***************************************************************************)
EXTENDS Integers, Sequences, FiniteSets, TLC

VARIABLES inp, text, call, pc, out, now

vars == <<inp, text, call, pc, out, now>>

(***************************************************************************)
(* Character classes                                                       *)
(***************************************************************************)
\* sp: take_while over " \t\r\n"
SpChars == {" ", "\t", "\r", "\n"}

\* separator of separated_list0 in list: one_of(" \n\t")
SepChars == {" ", "\n", "\t"}

Digits == {"0", "1", "2", "3", "4", "5", "6", "7", "8", "9"}

HexDigits == Digits \cup {"a", "b", "c", "d", "e", "f", "A", "B", "C", "D", "E", "F"}

Letters ==
  {"a", "b", "c", "d", "e", "f", "g", "h", "i", "j", "k", "l", "m", "n", "o",
   "p", "q", "r", "s", "t", "u", "v", "w", "x", "y", "z",
   "A", "B", "C", "D", "E", "F", "G", "H", "I", "J", "K", "L", "M", "N", "O",
   "P", "Q", "R", "S", "T", "U", "V", "W", "X", "Y", "Z"}

\* symbol: alphanumeric or one of _ - ? ! .
SymbolChars == Letters \cup Digits \cup {"_", "-", "?", "!", "."}

\* str::trim strips Unicode White_Space; of the alphabet these are the sp characters
TrimChars == {" ", "\t", "\r", "\n"}

(***************************************************************************)
(* Untyped tree nodes (enum SExpr)                                         *)
(***************************************************************************)
SList(items) == [k |-> "List", items |-> items]
SSymbol(s) == [k |-> "Symbol", s |-> s]
SValue(s) == [k |-> "Value", s |-> s]
SFloat(v) == [k |-> "Float", v |-> v]
SHex(h) == [k |-> "Hex", h |-> h]

(***************************************************************************)
(* nom results: Ok((rest, value)), Err::Error, Err::Failure; a panic       *)
(* unwinds through every combinator.                                       *)
(***************************************************************************)
POk(pos, val) == [kind |-> "ok", pos |-> pos, val |-> val]
PError == [kind |-> "error"]
PFailure == [kind |-> "failure"]
PPanic == [kind |-> "panic"]

RECURSIVE Scan(_, _, _)
\* take_while: first position at or after i whose character is not in C
Scan(s, i, C) ==
  IF i > Len(s) \/ s[i] \notin C THEN i ELSE Scan(s, i + 1, C)

RECURSIVE ScanNot(_, _, _)
\* is_not: first position at or after i whose character is in C
ScanNot(s, i, C) ==
  IF i > Len(s) \/ s[i] \in C THEN i ELSE ScanNot(s, i + 1, C)

At(s, i) == IF i >= 1 /\ i <= Len(s) THEN s[i] ELSE "EOF"

sp(s, i) == Scan(s, i, SpChars)

symbol(s, i) ==
  LET j == Scan(s, i, SymbolChars)
  IN IF j = i THEN PError ELSE POk(j, SubSeq(s, i, j - 1))

quoted_string(s, i) ==
  IF At(s, i) /= "\"" THEN PError
  ELSE LET j == ScanNot(s, i + 1, {"\""})
       IN IF j > i + 1 /\ At(s, j) = "\""
            THEN POk(j + 1, SubSeq(s, i + 1, j - 1))
          ELSE IF At(s, i + 1) = "\""
            \* tag("\"\"") yields the matched text, the two quote characters
            THEN POk(i + 2, SubSeq(s, i, i + 1))
          ELSE PError

\* raw.replace('_', "")
RECURSIVE StripUnderscores(_)
StripUnderscores(raw) ==
  IF raw = <<>> THEN <<>>
  ELSE IF Head(raw) = "_" THEN StripUnderscores(Tail(raw))
  ELSE <<Head(raw)>> \o StripUnderscores(Tail(raw))

\* leading zeros kept: every digit counts towards the width
StripLeadingZeros_mut(ds) == ds

RECURSIVE StripLeadingZeros(_)
StripLeadingZeros(ds) ==
  IF ds /= <<>> /\ Head(ds) = "0" THEN StripLeadingZeros(Tail(ds)) ELSE ds

LowerHex(c) ==
  CASE c = "A" -> "a" [] c = "B" -> "b" [] c = "C" -> "c"
    [] c = "D" -> "d" [] c = "E" -> "e" [] c = "F" -> "f" [] OTHER -> c

\* most hex digits a u64 holds
U64HexDigits == 16

\* u64::from_str_radix(stripped, 16): the value is kept as its canonical
\* lower-case numeral without leading zeros; Err on the empty string and on
\* a value that needs more than 64 bits.
from_str_radix(stripped) ==
  LET sig == StripLeadingZeros(stripped)
  IN IF stripped = <<>> THEN [ok |-> FALSE, why |-> "Empty"]
     ELSE IF Len(sig) > U64HexDigits THEN [ok |-> FALSE, why |-> "PosOverflow"]
     ELSE [ok |-> TRUE, val |-> [n \in 1..Len(sig) |-> LowerHex(sig[n])]]

hexadecimal(s, i) ==
  IF At(s, i) /= "0" \/ At(s, i + 1) /= "x" THEN PError
  ELSE LET j == Scan(s, i + 2, HexDigits \cup {"_"})
       IN IF j = i + 2 THEN PError
          ELSE LET r == from_str_radix(StripUnderscores(SubSeq(s, i + 2, j - 1)))
               IN IF r.ok THEN POk(j, r.val) ELSE PPanic   \* .unwrap()

DigitVal(c) ==
  CASE c = "0" -> 0 [] c = "1" -> 1 [] c = "2" -> 2 [] c = "3" -> 3 [] c = "4" -> 4
    [] c = "5" -> 5 [] c = "6" -> 6 [] c = "7" -> 7 [] c = "8" -> 8 [] c = "9" -> 9

RECURSIVE DecimalVal(_, _)
DecimalVal(ds, acc) ==
  IF ds = <<>> THEN acc ELSE DecimalVal(Tail(ds), acc * 10 + DigitVal(Head(ds)))

\* nom double on the integer literals of the alphabet: optional sign, digit1
double(s, i) ==
  LET signed == At(s, i) \in {"+", "-"}
      d0 == IF signed THEN i + 1 ELSE i
      j == Scan(s, d0, Digits)
      mag == DecimalVal(SubSeq(s, d0, j - 1), 0)
  IN IF j = d0 THEN PError
     ELSE POk(j, IF At(s, i) = "-" THEN 0 - mag ELSE mag)

RECURSIVE sexpr(_, _), list(_, _), separated_list0_more(_, _, _)

\* separated_list0 after the first element: separator, then element
separated_list0_more(s, p, acc) ==
  IF At(s, p) \notin SepChars THEN POk(p, acc)
  ELSE LET r == sexpr(s, p + 1)
       IN CASE r.kind = "ok" -> separated_list0_more(s, r.pos, Append(acc, r.val))
            [] r.kind = "error" -> POk(p, acc)      \* separator is not consumed
            [] OTHER -> r

separated_list0(s, i) ==
  LET r == sexpr(s, i)
  IN CASE r.kind = "ok" -> separated_list0_more(s, r.pos, <<r.val>>)
       [] r.kind = "error" -> POk(i, <<>>)
       [] OTHER -> r

list(s, i) ==
  IF At(s, i) /= "(" THEN PError
  ELSE LET r == separated_list0(s, i + 1)
       IN IF r.kind /= "ok" THEN r
          ELSE LET j == sp(s, r.pos)
               IN IF At(s, j) = ")" THEN POk(j + 1, r.val) ELSE PFailure   \* cut

sexpr(s, i) ==
  LET j == sp(s, i)
      l == list(s, j)
      q == quoted_string(s, j)
      h == hexadecimal(s, j)
      d == double(s, j)
      y == symbol(s, j)
  IN \* alt: the first alternative that does not return Err::Error decides
     IF l.kind = "ok" THEN POk(l.pos, SList(l.val))
     ELSE IF l.kind /= "error" THEN l
     ELSE IF q.kind = "ok" THEN POk(q.pos, SValue(q.val))
     ELSE IF h.kind = "ok" THEN POk(h.pos, SHex(h.val))
     ELSE IF h.kind /= "error" THEN h
     ELSE IF d.kind = "ok" THEN POk(d.pos, SFloat(d.val))
     ELSE IF y.kind = "ok" THEN POk(y.pos, SSymbol(y.val))
     ELSE PError

\* rest.trim().is_empty()
TrimIsEmpty(s, i) == Scan(s, i, TrimChars) > Len(s)

\* Result<SExprList, String>, or the panic that left the call
LexOk(items) == [kind |-> "ok", val |-> items]
LexErr(msg) == [kind |-> "err", msg |-> msg]
Panicked == [kind |-> "panic"]

\* parse_sexpr without the test on what is left of the input
parse_sexpr_mut(input) ==
  LET r == sexpr(input, 1)
  IN IF r.kind = "panic" THEN Panicked
     ELSE IF r.kind /= "ok" THEN LexErr("convert_error")
     ELSE IF r.val.k = "List" THEN LexOk(r.val.items)
     ELSE LexErr("Root must be list")

parse_sexpr(input) ==
  LET r == sexpr(input, 1)
  IN IF r.kind = "panic" THEN Panicked
     ELSE IF r.kind /= "ok" THEN LexErr("convert_error")
     ELSE IF ~TrimIsEmpty(input, r.pos) THEN LexErr("Unparsed input")
     ELSE IF r.val.k = "List" THEN LexOk(r.val.items)
     ELSE LexErr("Root must be list")

(***************************************************************************)
(* Input texts of the lexer specification: a text is written chunk by      *)
(* chunk, then parse_sexpr is called on it.                                *)
(***************************************************************************)
MaxChunks == 5

WsChunks == {"SP", "TAB", "CR", "LF"}
AtomChunks == {"NUM", "SYM", "STR"}
LexChunks == {"LP", "RP", "UQ"} \cup WsChunks \cup AtomChunks

ChunkText(c) ==
  CASE c = "LP" -> <<"(">>
    [] c = "RP" -> <<")">>
    [] c = "SP" -> <<" ">>
    [] c = "TAB" -> <<"\t">>
    [] c = "CR" -> <<"\r">>
    [] c = "LF" -> <<"\n">>
    [] c = "NUM" -> <<"1">>
    [] c = "SYM" -> <<"a">>
    [] c = "STR" -> <<"\"", "b", "\"">>
    [] c = "UQ" -> <<"\"", "b">>

RECURSIVE Render(_)
Render(toks) ==
  IF toks = <<>> THEN <<>> ELSE ChunkText(Head(toks)) \o Render(Tail(toks))

InitLex ==
  /\ inp = [kind |-> "chunks", toks |-> <<>>]
  /\ text = <<>>
  /\ call = "none"
  /\ pc = "build"
  /\ out = [kind |-> "none"]
  /\ now = 1

AppendChunk(c) ==
  /\ pc = "build"
  /\ Len(inp.toks) < MaxChunks
  /\ inp' = [inp EXCEPT !.toks = Append(@, c)]
  /\ text' = text \o ChunkText(c)
  /\ UNCHANGED <<call, pc, out, now>>

CallParseSexpr ==
  /\ pc = "build"
  /\ pc' = "done"
  /\ call' = "parse_sexpr"
  /\ out' = parse_sexpr(text)
  /\ UNCHANGED <<inp, text, now>>

NextLex ==
  \/ \E c \in LexChunks : AppendChunk(c)
  \/ CallParseSexpr

SpecLex == InitLex /\ [][NextLex]_vars

(***************************************************************************)
(* Reference reading of a chunk sequence, independent of the parser: the   *)
(* grammar of section 4.1 on tokens.                                       *)
(***************************************************************************)
RECURSIVE NonWs(_)
NonWs(toks) ==
  IF toks = <<>> THEN <<>>
  ELSE IF Head(toks) \in WsChunks THEN NonWs(Tail(toks))
  ELSE <<Head(toks)>> \o NonWs(Tail(toks))

RECURSIVE Depth(_, _)
\* number of lists open after the first n tokens
Depth(nz, n) ==
  IF n = 0 THEN 0
  ELSE Depth(nz, n - 1) + (CASE nz[n] = "LP" -> 1 [] nz[n] = "RP" -> -1 [] OTHER -> 0)

CountOf(toks, c) == Cardinality({n \in 1..Len(toks) : toks[n] = c})

\* adjacent elements of a list are separated by whitespace
Separated(toks) ==
  \A n \in 1..(Len(toks) - 1) :
    ~(toks[n] \in AtomChunks \cup {"RP"} /\ toks[n + 1] \in AtomChunks \cup {"LP"})

\* one root list, balanced parentheses, valid tokens, whitespace-separated
WellFormed(toks) ==
  LET nz == NonWs(toks)
  IN /\ nz /= <<>>
     /\ nz[1] = "LP"
     /\ \A n \in 1..Len(nz) : nz[n] /= "UQ"
     /\ \A n \in 1..(Len(nz) - 1) : Depth(nz, n) > 0
     /\ Depth(nz, Len(nz)) = 0
     /\ Separated(toks)

AtomNode(c) ==
  CASE c = "NUM" -> SFloat(1)
    [] c = "SYM" -> SSymbol(<<"a">>)
    [] c = "STR" -> SValue(<<"b">>)

RECURSIVE RefItems(_, _)
\* children of the list whose first child starts at nz[n], and the position
\* after its closing parenthesis
RefItems(nz, n) ==
  IF nz[n] = "RP" THEN [pos |-> n + 1, items |-> <<>>]
  ELSE IF nz[n] = "LP"
    THEN LET sub == RefItems(nz, n + 1)
             rest == RefItems(nz, sub.pos)
         IN [pos |-> rest.pos, items |-> <<SList(sub.items)>> \o rest.items]
  ELSE LET rest == RefItems(nz, n + 1)
       IN [pos |-> rest.pos, items |-> <<AtomNode(nz[n])>> \o rest.items]

RefTree(toks) == RefItems(NonWs(toks), 2).items

Parsed == pc = "done" /\ call = "parse_sexpr"

\* C1: every text of balanced parentheses with valid, whitespace-separated
\* tokens parses successfully to the list with the nesting and the child
\* order of the input.
C1_WellFormedParses ==
  (Parsed /\ WellFormed(inp.toks)) =>
    (out.kind = "ok" /\ out.val = RefTree(inp.toks))

(***************************************************************************)
(* Malformed inputs of section 4.1                                         *)
(***************************************************************************)
\* a list that is never closed
UnclosedList(toks) ==
  /\ CountOf(toks, "UQ") = 0
  /\ CountOf(toks, "LP") > CountOf(toks, "RP")

\* a quoted string that is never closed: an odd number of quote characters
UnclosedQuote(toks) == CountOf(toks, "UQ") % 2 = 1

\* non-whitespace input after the top-level expression
TrailingInput(toks) ==
  \E n \in 1..(Len(toks) - 1) :
    /\ WellFormed(SubSeq(toks, 1, n))
    /\ \E m \in (n + 1)..Len(toks) : toks[m] \notin WsChunks

LeadingClose(toks) == NonWs(toks) /= <<>> /\ NonWs(toks)[1] = "RP"

\* the top-level expression is an atom
BareAtomRoot(toks) == NonWs(toks) /= <<>> /\ NonWs(toks)[1] \in AtomChunks

Malformed(toks) ==
  \/ UnclosedList(toks)
  \/ UnclosedQuote(toks)
  \/ TrailingInput(toks)
  \/ LeadingClose(toks)
  \/ BareAtomRoot(toks)

RECURSIVE Canon(_, _)
\* the chunk sequence with every whitespace run that stands between two
\* adjacent elements replaced by one space
Canon(toks, n) ==
  IF n > Len(toks) THEN <<>>
  ELSE IF toks[n] \notin WsChunks THEN <<toks[n]>> \o Canon(toks, n + 1)
  ELSE LET m == Scan(toks, n, WsChunks)
           between == /\ n > 1
                      /\ m <= Len(toks)
                      /\ toks[n - 1] /= "LP"
                      /\ toks[m] /= "RP"
       IN (IF between THEN <<"SP">> ELSE SubSeq(toks, n, m - 1)) \o Canon(toks, m)

\* C10: the whitespace run between two adjacent elements may be any
\* non-empty run of space, tab, CR and LF without changing the parse result.
C10_WhitespaceInsignificant ==
  (Parsed /\ WellFormed(inp.toks)) =>
    out = parse_sexpr(Render(Canon(inp.toks, 1)))

(***************************************************************************)
(* Keywords of the file format, as character sequences                     *)
(***************************************************************************)
\* the string literals the conversions compare tags and symbols with
Kw ==
  [ kicad_pcb |-> <<"k", "i", "c", "a", "d", "_", "p", "c", "b">>,
    version |-> <<"v", "e", "r", "s", "i", "o", "n">>,
    generator |-> <<"g", "e", "n", "e", "r", "a", "t", "o", "r">>,
    generator_version |-> <<"g", "e", "n", "e", "r", "a", "t", "o", "r", "_", "v", "e", "r", "s", "i", "o", "n">>,
    paper |-> <<"p", "a", "p", "e", "r">>,
    general |-> <<"g", "e", "n", "e", "r", "a", "l">>,
    thickness |-> <<"t", "h", "i", "c", "k", "n", "e", "s", "s">>,
    layers |-> <<"l", "a", "y", "e", "r", "s">>,
    net |-> <<"n", "e", "t">>,
    footprint |-> <<"f", "o", "o", "t", "p", "r", "i", "n", "t">>,
    uuid |-> <<"u", "u", "i", "d">>,
    layer |-> <<"l", "a", "y", "e", "r">>,
    at |-> <<"a", "t">>,
    description |-> <<"d", "e", "s", "c", "r", "i", "p", "t", "i", "o", "n">>,
    tags |-> <<"t", "a", "g", "s">>,
    path |-> <<"p", "a", "t", "h">>,
    attr |-> <<"a", "t", "t", "r">>,
    fp_text |-> <<"f", "p", "_", "t", "e", "x", "t">>,
    fp_text_box |-> <<"f", "p", "_", "t", "e", "x", "t", "_", "b", "o", "x">>,
    fp_line |-> <<"f", "p", "_", "l", "i", "n", "e">>,
    fp_rect |-> <<"f", "p", "_", "r", "e", "c", "t">>,
    fp_circle |-> <<"f", "p", "_", "c", "i", "r", "c", "l", "e">>,
    fp_arc |-> <<"f", "p", "_", "a", "r", "c">>,
    fp_poly |-> <<"f", "p", "_", "p", "o", "l", "y">>,
    fp_curve |-> <<"f", "p", "_", "c", "u", "r", "v", "e">>,
    text |-> <<"t", "e", "x", "t">>,
    text_box |-> <<"t", "e", "x", "t", "_", "b", "o", "x">>,
    line |-> <<"l", "i", "n", "e">>,
    rect |-> <<"r", "e", "c", "t">>,
    circle |-> <<"c", "i", "r", "c", "l", "e">>,
    arc |-> <<"a", "r", "c">>,
    poly |-> <<"p", "o", "l", "y">>,
    curve |-> <<"c", "u", "r", "v", "e">>,
    hide |-> <<"h", "i", "d", "e">>,
    unlocked |-> <<"u", "n", "l", "o", "c", "k", "e", "d">>,
    reference |-> <<"r", "e", "f", "e", "r", "e", "n", "c", "e">>,
    value |-> <<"v", "a", "l", "u", "e">>,
    user |-> <<"u", "s", "e", "r">>,
    locked |-> <<"l", "o", "c", "k", "e", "d">>,
    placed |-> <<"p", "l", "a", "c", "e", "d">>,
    start |-> <<"s", "t", "a", "r", "t">>,
    end |-> <<"e", "n", "d">>,
    center |-> <<"c", "e", "n", "t", "e", "r">>,
    mid |-> <<"m", "i", "d">>,
    pts |-> <<"p", "t", "s">>,
    xy |-> <<"x", "y">>,
    stroke |-> <<"s", "t", "r", "o", "k", "e">>,
    width |-> <<"w", "i", "d", "t", "h">>,
    fill |-> <<"f", "i", "l", "l">>,
    yes |-> <<"y", "e", "s">>,
    type |-> <<"t", "y", "p", "e">>,
    color |-> <<"c", "o", "l", "o", "r">>,
    angle |-> <<"a", "n", "g", "l", "e">>,
    dash |-> <<"d", "a", "s", "h">>,
    dash_dot |-> <<"d", "a", "s", "h", "_", "d", "o", "t">>,
    dash_dot_dot |-> <<"d", "a", "s", "h", "_", "d", "o", "t", "_", "d", "o", "t">>,
    dot |-> <<"d", "o", "t">>,
    default |-> <<"d", "e", "f", "a", "u", "l", "t">>,
    solid |-> <<"s", "o", "l", "i", "d">>,
    smd |-> <<"s", "m", "d">>,
    through_hole |-> <<"t", "h", "r", "o", "u", "g", "h", "_", "h", "o", "l", "e">>,
    board_only |-> <<"b", "o", "a", "r", "d", "_", "o", "n", "l", "y">>,
    exclude_from_pos_files |-> <<"e", "x", "c", "l", "u", "d", "e", "_", "f", "r", "o", "m", "_", "p", "o", "s", "_", "f", "i", "l", "e", "s">>,
    exclude_from_bom |-> <<"e", "x", "c", "l", "u", "d", "e", "_", "f", "r", "o", "m", "_", "b", "o", "m">>,
    jumper |-> <<"j", "u", "m", "p", "e", "r">>,
    mixed |-> <<"m", "i", "x", "e", "d">>,
    power |-> <<"p", "o", "w", "e", "r">>,
    signal |-> <<"s", "i", "g", "n", "a", "l">>,
    gr_ |-> <<"g", "r", "_">>,
    fp_ |-> <<"f", "p", "_">>,
    _text |-> <<"_", "t", "e", "x", "t">>,
    _text_box |-> <<"_", "t", "e", "x", "t", "_", "b", "o", "x">>,
    _line |-> <<"_", "l", "i", "n", "e">>,
    _rect |-> <<"_", "r", "e", "c", "t">>,
    _circle |-> <<"_", "c", "i", "r", "c", "l", "e">>,
    _arc |-> <<"_", "a", "r", "c">>,
    _poly |-> <<"_", "p", "o", "l", "y">>,
    _curve |-> <<"_", "c", "u", "r", "v", "e">> ]

\* the match of Layer::try_from: name, variant
LayerParseTable ==
  <<<<<<"F", ".", "C", "u">>, "FCu">>,
    <<<<"B", ".", "C", "u">>, "BCu">>,
    <<<<"I", "n", "1", ".", "C", "u">>, "In1Cu">>,
    <<<<"I", "n", "2", ".", "C", "u">>, "In2Cu">>,
    <<<<"I", "n", "3", ".", "C", "u">>, "In3Cu">>,
    <<<<"I", "n", "4", ".", "C", "u">>, "In4Cu">>,
    <<<<"I", "n", "5", ".", "C", "u">>, "In5Cu">>,
    <<<<"I", "n", "6", ".", "C", "u">>, "In6Cu">>,
    <<<<"I", "n", "7", ".", "C", "u">>, "In7Cu">>,
    <<<<"I", "n", "8", ".", "C", "u">>, "In8Cu">>,
    <<<<"I", "n", "9", ".", "C", "u">>, "In9Cu">>,
    <<<<"I", "n", "1", "0", ".", "C", "u">>, "In10Cu">>,
    <<<<"I", "n", "1", "1", ".", "C", "u">>, "In11Cu">>,
    <<<<"I", "n", "1", "2", ".", "C", "u">>, "In12Cu">>,
    <<<<"I", "n", "1", "3", ".", "C", "u">>, "In13Cu">>,
    <<<<"I", "n", "1", "4", ".", "C", "u">>, "In14Cu">>,
    <<<<"I", "n", "1", "5", ".", "C", "u">>, "In15Cu">>,
    <<<<"I", "n", "1", "6", ".", "C", "u">>, "In16Cu">>,
    <<<<"I", "n", "1", "7", ".", "C", "u">>, "In17Cu">>,
    <<<<"I", "n", "1", "8", ".", "C", "u">>, "In18Cu">>,
    <<<<"I", "n", "1", "9", ".", "C", "u">>, "In19Cu">>,
    <<<<"I", "n", "2", "0", ".", "C", "u">>, "In20Cu">>,
    <<<<"I", "n", "2", "1", ".", "C", "u">>, "In21Cu">>,
    <<<<"I", "n", "2", "2", ".", "C", "u">>, "In22Cu">>,
    <<<<"I", "n", "2", "3", ".", "C", "u">>, "In23Cu">>,
    <<<<"I", "n", "2", "4", ".", "C", "u">>, "In24Cu">>,
    <<<<"I", "n", "2", "5", ".", "C", "u">>, "In25Cu">>,
    <<<<"I", "n", "2", "6", ".", "C", "u">>, "In26Cu">>,
    <<<<"I", "n", "2", "7", ".", "C", "u">>, "In27Cu">>,
    <<<<"I", "n", "2", "8", ".", "C", "u">>, "In28Cu">>,
    <<<<"I", "n", "2", "9", ".", "C", "u">>, "In29Cu">>,
    <<<<"I", "n", "3", "0", ".", "C", "u">>, "In30Cu">>,
    <<<<"B", ".", "A", "d", "h", "e", "s">>, "BAdhes">>,
    <<<<"F", ".", "A", "d", "h", "e", "s">>, "FAdhes">>,
    <<<<"B", ".", "P", "a", "s", "t", "e">>, "BPaste">>,
    <<<<"F", ".", "P", "a", "s", "t", "e">>, "FPaste">>,
    <<<<"B", ".", "S", "i", "l", "k", "S">>, "BSilkS">>,
    <<<<"F", ".", "S", "i", "l", "k", "S">>, "FSilkS">>,
    <<<<"B", ".", "M", "a", "s", "k">>, "BMask">>,
    <<<<"F", ".", "M", "a", "s", "k">>, "FMask">>,
    <<<<"D", "w", "g", "s", ".", "U", "s", "e", "r">>, "DwgsUser">>,
    <<<<"C", "m", "t", "s", ".", "U", "s", "e", "r">>, "CmtsUser">>,
    <<<<"E", "c", "o", "1", ".", "U", "s", "e", "r">>, "Eco1User">>,
    <<<<"E", "c", "o", "2", ".", "U", "s", "e", "r">>, "Eco2User">>,
    <<<<"E", "d", "g", "e", ".", "C", "u", "t", "s">>, "EdgeCuts">>,
    <<<<"F", ".", "C", "r", "t", "Y", "d">>, "FCrtYd">>,
    <<<<"B", ".", "C", "r", "t", "Y", "d">>, "BCrtYd">>,
    <<<<"F", ".", "F", "a", "b">>, "FFab">>,
    <<<<"B", ".", "F", "a", "b">>, "BFab">>,
    <<<<"U", "s", "e", "r", ".", "1">>, "User1">>,
    <<<<"U", "s", "e", "r", ".", "2">>, "User2">>,
    <<<<"U", "s", "e", "r", ".", "3">>, "User3">>,
    <<<<"U", "s", "e", "r", ".", "4">>, "User4">>,
    <<<<"U", "s", "e", "r", ".", "5">>, "User5">>,
    <<<<"U", "s", "e", "r", ".", "6">>, "User6">>,
    <<<<"U", "s", "e", "r", ".", "7">>, "User7">>,
    <<<<"U", "s", "e", "r", ".", "8">>, "User8">>,
    <<<<"U", "s", "e", "r", ".", "9">>, "User9">>>>

\* the match of Display for Layer: variant, name
LayerDisplayTable ==
  <<<<"FCu", <<"F", ".", "C", "u">>>>,
    <<"BCu", <<"B", ".", "C", "u">>>>,
    <<"In1Cu", <<"I", "n", "1", ".", "C", "u">>>>,
    <<"In2Cu", <<"I", "n", "2", ".", "C", "u">>>>,
    <<"In3Cu", <<"I", "n", "3", ".", "C", "u">>>>,
    <<"In4Cu", <<"I", "n", "4", ".", "C", "u">>>>,
    <<"In5Cu", <<"I", "n", "5", ".", "C", "u">>>>,
    <<"In6Cu", <<"I", "n", "6", ".", "C", "u">>>>,
    <<"In7Cu", <<"I", "n", "7", ".", "C", "u">>>>,
    <<"In8Cu", <<"I", "n", "8", ".", "C", "u">>>>,
    <<"In9Cu", <<"I", "n", "9", ".", "C", "u">>>>,
    <<"In10Cu", <<"I", "n", "1", "0", ".", "C", "u">>>>,
    <<"In11Cu", <<"I", "n", "1", "1", ".", "C", "u">>>>,
    <<"In12Cu", <<"I", "n", "1", "2", ".", "C", "u">>>>,
    <<"In13Cu", <<"I", "n", "1", "3", ".", "C", "u">>>>,
    <<"In14Cu", <<"I", "n", "1", "4", ".", "C", "u">>>>,
    <<"In15Cu", <<"I", "n", "1", "5", ".", "C", "u">>>>,
    <<"In16Cu", <<"I", "n", "1", "6", ".", "C", "u">>>>,
    <<"In17Cu", <<"I", "n", "1", "7", ".", "C", "u">>>>,
    <<"In18Cu", <<"I", "n", "1", "8", ".", "C", "u">>>>,
    <<"In19Cu", <<"I", "n", "1", "9", ".", "C", "u">>>>,
    <<"In20Cu", <<"I", "n", "2", "0", ".", "C", "u">>>>,
    <<"In21Cu", <<"I", "n", "2", "1", ".", "C", "u">>>>,
    <<"In22Cu", <<"I", "n", "2", "2", ".", "C", "u">>>>,
    <<"In23Cu", <<"I", "n", "2", "3", ".", "C", "u">>>>,
    <<"In24Cu", <<"I", "n", "2", "4", ".", "C", "u">>>>,
    <<"In25Cu", <<"I", "n", "2", "5", ".", "C", "u">>>>,
    <<"In26Cu", <<"I", "n", "2", "6", ".", "C", "u">>>>,
    <<"In27Cu", <<"I", "n", "2", "7", ".", "C", "u">>>>,
    <<"In28Cu", <<"I", "n", "2", "8", ".", "C", "u">>>>,
    <<"In29Cu", <<"I", "n", "2", "9", ".", "C", "u">>>>,
    <<"In30Cu", <<"I", "n", "3", "0", ".", "C", "u">>>>,
    <<"BAdhes", <<"B", ".", "A", "d", "h", "e", "s">>>>,
    <<"FAdhes", <<"F", ".", "A", "d", "h", "e", "s">>>>,
    <<"BPaste", <<"B", ".", "P", "a", "s", "t", "e">>>>,
    <<"FPaste", <<"F", ".", "P", "a", "s", "t", "e">>>>,
    <<"BSilkS", <<"B", ".", "S", "i", "l", "k", "S">>>>,
    <<"FSilkS", <<"F", ".", "S", "i", "l", "k", "S">>>>,
    <<"BMask", <<"B", ".", "M", "a", "s", "k">>>>,
    <<"FMask", <<"F", ".", "M", "a", "s", "k">>>>,
    <<"DwgsUser", <<"D", "w", "g", "s", ".", "U", "s", "e", "r">>>>,
    <<"CmtsUser", <<"C", "m", "t", "s", ".", "U", "s", "e", "r">>>>,
    <<"Eco1User", <<"E", "c", "o", "1", ".", "U", "s", "e", "r">>>>,
    <<"Eco2User", <<"E", "c", "o", "2", ".", "U", "s", "e", "r">>>>,
    <<"EdgeCuts", <<"E", "d", "g", "e", ".", "C", "u", "t", "s">>>>,
    <<"FCrtYd", <<"F", ".", "C", "r", "t", "Y", "d">>>>,
    <<"BCrtYd", <<"B", ".", "C", "r", "t", "Y", "d">>>>,
    <<"FFab", <<"F", ".", "F", "a", "b">>>>,
    <<"BFab", <<"B", ".", "F", "a", "b">>>>,
    <<"User1", <<"U", "s", "e", "r", ".", "1">>>>,
    <<"User2", <<"U", "s", "e", "r", ".", "2">>>>,
    <<"User3", <<"U", "s", "e", "r", ".", "3">>>>,
    <<"User4", <<"U", "s", "e", "r", ".", "4">>>>,
    <<"User5", <<"U", "s", "e", "r", ".", "5">>>>,
    <<"User6", <<"U", "s", "e", "r", ".", "6">>>>,
    <<"User7", <<"U", "s", "e", "r", ".", "7">>>>,
    <<"User8", <<"U", "s", "e", "r", ".", "8">>>>,
    <<"User9", <<"U", "s", "e", "r", ".", "9">>>>>>

(***************************************************************************)
(* ParserError and the results of the typed layer                          *)
(***************************************************************************)
\* the strings of an error: a literal of the code, text taken from the
\* input, or the Debug form of nodes
Text(m) == [k |-> "Text", m |-> m]
Chars(cs) == [k |-> "Chars", s |-> cs]
Node(n) == [k |-> "Node", n |-> n]
Nodes(ns) == [k |-> "Nodes", items |-> ns]

ROk(v) == [kind |-> "ok", val |-> v]
COk(v, rest) == [kind |-> "ok", val |-> v, rest |-> rest]
RErr(e) == [kind |-> "err", err |-> e]

\* the `?` operator: an Err leaves the function, an Ok value goes on
Try(r, K(_)) == IF r.kind /= "ok" THEN r ELSE K(r)

\* `let v = ..;`
With(v, K(_)) == K(v)

None == [some |-> FALSE]
Some(v) == [some |-> TRUE, v |-> v]

\* struct literal ParserError { expected, found, kind, in_context: vec![context!()], .. }
ParserError(ekind, expected, found, ctx) ==
  [ekind |-> ekind, expected |-> expected, found |-> found, in_context |-> <<ctx>>]

\* ParserError::unexpected(expected, found)
unexpected(expected, found) ==
  [ekind |-> "Unexpected", expected |-> expected, found |-> found, in_context |-> <<>>]

\* ParserError::unexpected_sexpr(expected, found)
unexpected_sexpr(expected, found) ==
  [ekind |-> "UnexpectedSExpr", expected |-> expected, found |-> Node(found),
   in_context |-> <<>>]

\* ParserError::add_context(context)
add_context(e, ctx) == [e EXCEPT !.in_context = Append(@, ctx)]

\* error!(expected, found)
error_macro(expected, found, ctx) == RErr(add_context(unexpected(expected, found), ctx))

\* error!(SExpr, expected, found)
error_macro_sexpr(expected, found, ctx) ==
  RErr(add_context(unexpected_sexpr(expected, found), ctx))

(***************************************************************************)
(* impl_from_into! and the TryFrom<SExpr> of the scalar types              *)
(***************************************************************************)
as_symbol(expr) ==
  IF expr.k = "Symbol" THEN ROk(expr.s)
  ELSE RErr(unexpected_sexpr(Text("SExpr::Symbol"), expr))

as_value(expr) ==
  IF expr.k = "Value" THEN ROk(expr.s)
  ELSE RErr(unexpected_sexpr(Text("SExpr::Value"), expr))

as_list(expr) ==
  IF expr.k = "List" THEN ROk(expr.items)
  ELSE RErr(unexpected_sexpr(Text("SExpr::List"), expr))

as_string(expr) ==
  IF expr.k = "Value" THEN ROk(expr.s)
  ELSE RErr(unexpected_sexpr(Text("SExpr::Value"), expr))

HexDigitVal(c) ==
  CASE c = "a" -> 10 [] c = "b" -> 11 [] c = "c" -> 12
    [] c = "d" -> 13 [] c = "e" -> 14 [] c = "f" -> 15 [] OTHER -> DigitVal(c)

RECURSIVE HexVal(_, _)
\* the number a hex numeral denotes (numerals of the inputs stay below 2^31)
HexVal(h, acc) ==
  IF h = <<>> THEN acc ELSE HexVal(Tail(h), acc * 16 + HexDigitVal(Head(h)))

as_f64(expr) ==
  IF expr.k = "Float" THEN ROk(expr.v)
  ELSE IF expr.k = "Hex" THEN ROk(HexVal(expr.h, 0))
  ELSE error_macro_sexpr(Text("Value or Hex"), expr, "src/sexpr/mod.rs:102")

as_f32(expr) ==
  IF expr.k = "Float" THEN ROk(expr.v)
  ELSE IF expr.k = "Hex" THEN ROk(HexVal(expr.h, 0))
  ELSE error_macro_sexpr(Text("Value or Hex"), expr, "src/sexpr/mod.rs:114")

\* `d as u32`, `d as u8`, `d as i32`: saturating casts
SaturateU32(d) == IF d < 0 THEN 0 ELSE d
SaturateU8(d) == IF d < 0 THEN 0 ELSE IF d > 255 THEN 255 ELSE d

as_u32(expr) ==
  IF expr.k = "Float" THEN ROk(SaturateU32(expr.v))
  ELSE IF expr.k = "Hex" THEN ROk(HexVal(expr.h, 0))
  ELSE error_macro_sexpr(Text("Value or Hex"), expr, "src/sexpr/mod.rs:126")

as_u8(expr) ==
  IF expr.k = "Float" THEN ROk(SaturateU8(expr.v))
  ELSE IF expr.k = "Hex" THEN ROk(HexVal(expr.h, 0) % 256)
  ELSE error_macro_sexpr(Text("Value or Hex"), expr, "src/sexpr/mod.rs:138")

(***************************************************************************)
(* SExprList: the cursor is the sequence of the children not yet consumed  *)
(***************************************************************************)
UnexpectedEnd(expected, ctx) ==
  ParserError("UnexpectedEnd", Text(expected), Text("end of list"), ctx)

peek_name_maybe(items) ==
  IF items = <<>> THEN ROk(None)
  ELSE IF Head(items).k = "Symbol" THEN ROk(Some(Head(items).s))
  ELSE error_macro_sexpr(Text("peek(Symbol)"), Head(items), "src/sexpr/sexpr_list.rs:43")

\* peek_name taking the end of the list for an empty name
peek_name_mut(items) ==
  Try(peek_name_maybe(items), LAMBDA p :
    IF p.val.some THEN ROk(p.val.v) ELSE ROk(<<>>))

peek_name(items) ==
  Try(peek_name_maybe(items), LAMBDA p :
    IF p.val.some THEN ROk(p.val.v)
    ELSE RErr(UnexpectedEnd("More Symbol", "src/sexpr/sexpr_list.rs:75")))

\* discard without the length check
discard_mut(items, amount) == COk(TRUE, SubSeq(items, amount + 1, Len(items)))

discard(items, amount) ==
  IF amount > Len(items)
    THEN RErr(UnexpectedEnd("More tokens", "src/sexpr/sexpr_list.rs:86"))
  ELSE COk(TRUE, SubSeq(items, amount + 1, Len(items)))

next_maybe(items) ==
  IF items = <<>> THEN [some |-> FALSE, rest |-> items]
  ELSE [some |-> TRUE, v |-> Head(items), rest |-> Tail(items)]

\* next_any returning the front child without removing it
next_any_mut(items) ==
  IF items /= <<>> THEN COk(Head(items), items)
  ELSE RErr(UnexpectedEnd("More tokens", "src/sexpr/sexpr_list.rs:133"))

next_any(items) ==
  IF items /= <<>> THEN COk(Head(items), Tail(items))
  ELSE RErr(UnexpectedEnd("More tokens", "src/sexpr/sexpr_list.rs:133"))

\* TryFrom<SExpr> for PcbLayerType
PcbLayerType_try_from(value) ==
  Try(as_symbol(value), LAMBDA y :
  IF y.val = Kw.user THEN ROk("User")
  ELSE IF y.val = Kw.jumper THEN ROk("Jumper")
  ELSE IF y.val = Kw.mixed THEN ROk("Mixed")
  ELSE IF y.val = Kw.power THEN ROk("Power")
  ELSE IF y.val = Kw.signal THEN ROk("Signal")
  ELSE error_macro(Text("Valid PCB Layer"), Chars(y.val), "src/pcb_file/pcb_layer.rs:62"))

\* <T as TryFrom<SExpr>>::try_from, the conversion trait every typed entity
\* implements; its implementations are gathered after the last of them
RECURSIVE TryFrom(_, _)

\* next_into::<T>
next_into(items, T) ==
  Try(next_any(items), LAMBDA a :
  Try(TryFrom(T, a.val), LAMBDA c : COk(c.val, a.rest)))

\* next_maybe_into taking a child that does not convert for an absent one
next_maybe_into_mut(items, T) ==
  IF items = <<>> THEN COk(None, items)
  ELSE With(TryFrom(T, Head(items)), LAMBDA c :
         IF c.kind = "ok" THEN COk(Some(c.val), Tail(items)) ELSE COk(None, Tail(items)))

\* next_maybe_into::<T>
next_maybe_into(items, T) ==
  IF items = <<>> THEN COk(None, items)
  ELSE Try(TryFrom(T, Head(items)), LAMBDA c : COk(Some(c.val), Tail(items)))

next_symbol(items) == next_into(items, "SExprSymbol")
next_list(items) == next_into(items, "SExprList")
next_maybe_list(items) == next_maybe_into(items, "SExprList")
next_maybe_symbol(items) == next_maybe_into(items, "SExprSymbol")

\* expect_end accepting leftover children
expect_end_mut(items) == ROk(TRUE)

expect_end(items) ==
  IF items = <<>> THEN ROk(TRUE)
  ELSE RErr(ParserError("Leftover", Text("Empty list"), Nodes(items),
                        "src/sexpr/sexpr_list.rs:182"))

\* expect_eq!(list.next_symbol()?, keyword, ..): the macro names its first
\* argument twice, so on a mismatch next_symbol()? runs a second time
expect_eq_next_symbol(items, keyword, ctx) ==
  Try(next_symbol(items), LAMBDA a :
    IF a.val = keyword THEN a
    ELSE Try(next_symbol(a.rest), LAMBDA b :
           error_macro(Chars(b.val), Chars(keyword), ctx)))

\* expect_eq!(list.peek_name()?, keyword, ..)
expect_eq_peek_name(items, keyword, ctx) ==
  Try(peek_name(items), LAMBDA a :
    IF a.val = keyword THEN a
    ELSE error_macro(Chars(a.val), Chars(keyword), ctx))

EndsWith(s, suffix) ==
  /\ Len(s) >= Len(suffix)
  /\ SubSeq(s, Len(s) - Len(suffix) + 1, Len(s)) = suffix

StartsWith(s, prefix) ==
  /\ Len(s) >= Len(prefix)
  /\ SubSeq(s, 1, Len(prefix)) = prefix

\* symbol_ends_with!(list, suffix)
symbol_ends_with(items, suffix) ==
  Try(next_symbol(items), LAMBDA a :
    IF ~EndsWith(a.val, suffix) THEN RErr(unexpected(Chars(suffix), Chars(a.val)))
    ELSE a)


(***************************************************************************)
(* Positionals (src/common/positionals.rs)                                 *)
(***************************************************************************)
\* an assignment that drops the error of its conversion
Set_mut(rec, field, r) == IF r.kind /= "ok" THEN ROk(rec) ELSE ROk([rec EXCEPT ![field] = r.val])

\* value of `record.field = conversion?`
Set(rec, field, r) == IF r.kind /= "ok" THEN r ELSE ROk([rec EXCEPT ![field] = r.val])

\* value of `record.field = Some(conversion?)`
SetSome(rec, field, r) ==
  IF r.kind /= "ok" THEN r ELSE ROk([rec EXCEPT ![field] = Some(r.val)])

\* list.discard(1)?.next_into()?
discard1_next_into(items, T) ==
  Try(discard(items, 1), LAMBDA d : next_into(d.rest, T))

PositionDefault == [x |-> 0, y |-> 0, angle |-> None]
PointDefault == [x |-> 0, y |-> 0]

Position_try_from(value) ==
  Try(as_list(value), LAMBDA l :
  Try(expect_eq_next_symbol(l.val, Kw.at, "src/common/positionals.rs:20"), LAMBDA t :
  Try(next_into(t.rest, "f64"), LAMBDA x :
  Try(next_into(x.rest, "f64"), LAMBDA y :
  Try(next_maybe_into(y.rest, "f64"), LAMBDA angle :
  Try(expect_end(angle.rest), LAMBDA e :
  ROk([x |-> x.val, y |-> y.val, angle |-> angle.val])))))))

Point_try_from(value) ==
  Try(as_list(value), LAMBDA l :
  Try(next_symbol(l.val), LAMBDA name :     \* let _name: the tag is not compared
  Try(next_into(name.rest, "f64"), LAMBDA x :
  Try(next_into(x.rest, "f64"), LAMBDA y :
  Try(expect_end(y.rest), LAMBDA e :
  ROk([x |-> x.val, y |-> y.val]))))))

RECURSIVE PointList_loop(_, _)
PointList_loop(items, acc) ==
  Try(next_maybe_list(items), LAMBDA pt :
  IF ~pt.val.some THEN ROk(acc) ELSE
  Try(expect_eq_peek_name(pt.val.v, Kw.xy, "src/common/positionals.rs:67"), LAMBDA t :
  Try(TryFrom("Point", SList(pt.val.v)), LAMBDA p :
  PointList_loop(pt.rest, Append(acc, p.val)))))

PointList_try_from(value) ==
  Try(as_list(value), LAMBDA l :
  Try(expect_eq_next_symbol(l.val, Kw.pts, "src/common/positionals.rs:63"), LAMBDA t :
  PointList_loop(t.rest, <<>>)))

(***************************************************************************)
(* Stroke, Uuid, Layer                                                     *)
(***************************************************************************)
StrokeType_try_from(value) ==
  Try(as_list(value), LAMBDA l :
  Try(expect_eq_next_symbol(l.val, Kw.type, "src/common/graphic.rs:79"), LAMBDA t :
  Try(next_symbol(t.rest), LAMBDA y :
  IF y.val = Kw.dash THEN ROk("Dash")
  ELSE IF y.val = Kw.dash_dot THEN ROk("DashDot")
  ELSE IF y.val = Kw.dash_dot_dot THEN ROk("DashDotDot")
  ELSE IF y.val = Kw.dot THEN ROk("Dot")
  ELSE IF y.val = Kw.default THEN ROk("Default")
  ELSE IF y.val = Kw.solid THEN ROk("Solid")
  ELSE error_macro(Text("Valid stroke type"), Chars(y.val), "src/common/graphic.rs:88"))))

RgbaColor_try_from(value) ==
  Try(as_list(value), LAMBDA l :
  Try(expect_eq_next_symbol(l.val, Kw.color, "src/common/graphic.rs:50"), LAMBDA t :
  Try(next_into(t.rest, "u8"), LAMBDA r :
  Try(next_into(r.rest, "u8"), LAMBDA g :
  Try(next_into(g.rest, "u8"), LAMBDA b :
  Try(next_into(b.rest, "u8"), LAMBDA a :
  Try(expect_end(a.rest), LAMBDA e :
  ROk(<<r.val, g.val, b.val, a.val>>))))))))

StrokeDefault == [width |-> 0, line_type |-> "Default", color |-> None]

Stroke_attr(stroke, child) ==
  Try(as_list(child), LAMBDA l :
  Try(peek_name(l.val), LAMBDA name :
  IF name.val = Kw.width THEN Set(stroke, "width", discard1_next_into(l.val, "f64"))
  ELSE IF name.val = Kw.type THEN Set(stroke, "line_type", TryFrom("StrokeType", child))
  ELSE IF name.val = Kw.color THEN SetSome(stroke, "color", TryFrom("RgbaColor", child))
  ELSE ROk(stroke)))

RECURSIVE Stroke_loop(_, _)
Stroke_loop(items, stroke) ==
  IF items = <<>> THEN ROk(stroke)
  ELSE Try(Stroke_attr(stroke, Head(items)), LAMBDA r : Stroke_loop(Tail(items), r.val))

Stroke_try_from(value) ==
  Try(as_list(value), LAMBDA l :
  Try(expect_eq_next_symbol(l.val, Kw.stroke, "src/common/graphic.rs:24"), LAMBDA t :
  Stroke_loop(t.rest, StrokeDefault)))

\* Uuid::new(): the hexadecimal form of the system time in nanoseconds
Uuid_new == [from |-> "clock", t |-> now]

Uuid_try_from(value) ==
  Try(as_list(value), LAMBDA l :
  Try(expect_eq_next_symbol(l.val, Kw.uuid, "src/common/footprint.rs:222"), LAMBDA t :
  Try(next_into(t.rest, "String"), LAMBDA u :
  IF u.val = <<>> THEN RErr(unexpected(Text("Non-empty UUID"), Chars(u.val))) ELSE
  Try(expect_end(u.rest), LAMBDA e :
  ROk([from |-> "text", s |-> u.val])))))

LayerNames == {LayerParseTable[n][1] : n \in 1..Len(LayerParseTable)}

LayerOfName(name) ==
  LayerParseTable[CHOOSE n \in 1..Len(LayerParseTable) : LayerParseTable[n][1] = name][2]

\* a Display that writes the default layer whatever the layer
LayerDisplay_mut(layer) == LayerDisplayTable[1][2]

\* Display for Layer
LayerDisplay(layer) ==
  LayerDisplayTable[CHOOSE n \in 1..Len(LayerDisplayTable) : LayerDisplayTable[n][1] = layer][2]

\* #[default] FCu
LayerDefault == "FCu"

Layer_try_from(value) ==
  Try(as_list(value), LAMBDA l :
  Try(expect_eq_next_symbol(l.val, Kw.layer, "src/common/footprint.rs:321"), LAMBDA t :
  Try(next_into(t.rest, "SExprValue"), LAMBDA v :
  IF v.val \notin LayerNames THEN RErr(unexpected(Text("Valid layer"), Chars(v.val))) ELSE
  Try(expect_end(v.rest), LAMBDA e :
  ROk(LayerOfName(v.val))))))


(***************************************************************************)
(* The eight graphic kinds.  common/graphic.rs and common/footprint.rs     *)
(* hold the same attribute loops; they differ in how the leading tag is    *)
(* checked.                                                                *)
(***************************************************************************)
\* an unrecognized child fails the conversion
catch_all_mut(acc) == RErr(unexpected(Text("Recognized attribute"), Text("unrecognized")))

\* catch_all!(name): a diagnostic is printed and the conversion goes on
catch_all(acc) == ROk(acc)

\* `attr.discard(1)?.next_symbol()? == "yes"`
fill_is_yes(items) ==
  Try(discard(items, 1), LAMBDA d :
  Try(next_symbol(d.rest), LAMBDA y : ROk(y.val = Kw.yes)))

\* `attr.discard(1)?.next_maybe_into()?`
discard1_next_maybe_into(items, T) ==
  Try(discard(items, 1), LAMBDA d : next_maybe_into(d.rest, T))

GraphicKinds ==
  {"Text", "TextBox", "Line", "Rectangle", "Circle", "Arc", "Polygon", "Curve"}

\* Self::default() of each kind
GraphicDefault(kind) ==
  CASE kind = "Text" ->
         [text_type |-> "Reference", text |-> <<>>, position |-> PositionDefault,
          unlocked |-> FALSE, layer |-> LayerDefault, hide |-> FALSE,
          uuid |-> Uuid_new]
    [] kind = "TextBox" ->
         [locked |-> FALSE, text |-> <<>>, start |-> None, end |-> None,
          points |-> <<>>, angle |-> None, layer |-> LayerDefault,
          uuid |-> Uuid_new, stroke |-> None]
    [] kind = "Line" ->
         [start |-> PointDefault, end |-> PointDefault, layer |-> LayerDefault,
          stroke |-> StrokeDefault, locked |-> FALSE, uuid |-> Uuid_new,
          width |-> 0]
    [] kind = "Rectangle" ->
         [start |-> PointDefault, end |-> PointDefault, width |-> 0,
          layer |-> LayerDefault, stroke |-> StrokeDefault, fill |-> FALSE,
          locked |-> FALSE, uuid |-> Uuid_new]
    [] kind = "Circle" ->
         [center |-> PointDefault, end |-> PointDefault, layer |-> LayerDefault,
          stroke |-> StrokeDefault, width |-> 0, fill |-> FALSE,
          locked |-> FALSE, uuid |-> Uuid_new]
    [] kind = "Arc" ->
         [start |-> PointDefault, mid |-> PointDefault, end |-> PointDefault,
          layer |-> LayerDefault, width |-> 0, stroke |-> StrokeDefault,
          locked |-> FALSE, uuid |-> Uuid_new]
    [] kind = "Polygon" ->
         [points |-> <<>>, layer |-> LayerDefault, stroke |-> StrokeDefault,
          fill |-> FALSE, locked |-> FALSE, uuid |-> Uuid_new, width |-> 0]
    [] kind = "Curve" ->
         [points |-> <<>>, layer |-> LayerDefault, stroke |-> StrokeDefault,
          locked |-> FALSE, width |-> 0, uuid |-> Uuid_new]

\* one turn of `while let Some(next) = list.next_maybe() { match next {..} }`
FootprintText_attr(textbox, next) ==
  IF next.k = "Value" THEN ROk([textbox EXCEPT !.text = next.s])
  ELSE IF next.k = "Symbol" /\ next.s = Kw.hide THEN ROk([textbox EXCEPT !.hide = TRUE])
  ELSE IF next.k = "Symbol" /\ next.s = Kw.unlocked THEN ROk([textbox EXCEPT !.hide = TRUE])
  ELSE IF next.k = "Symbol" /\ next.s = Kw.reference
    THEN ROk([textbox EXCEPT !.text_type = "Reference"])
  ELSE IF next.k = "Symbol" /\ next.s = Kw.value THEN ROk([textbox EXCEPT !.text_type = "Value"])
  ELSE IF next.k = "Symbol" /\ next.s = Kw.user THEN ROk([textbox EXCEPT !.text_type = "User"])
  ELSE IF next.k = "List" THEN
    Try(peek_name(next.items), LAMBDA name :
    IF name.val = Kw.at THEN Set(textbox, "position", TryFrom("Position", next))
    ELSE IF name.val = Kw.layer THEN Set(textbox, "layer", TryFrom("Layer", next))
    ELSE IF name.val = Kw.uuid THEN Set(textbox, "uuid", TryFrom("Uuid", next))
    ELSE catch_all(textbox))
  ELSE catch_all(textbox)

FootprintTextBox_attr(textbox, next) ==
  IF next.k = "Value" THEN ROk([textbox EXCEPT !.text = next.s])
  ELSE IF next.k = "Symbol" /\ next.s = Kw.locked THEN ROk([textbox EXCEPT !.locked = TRUE])
  ELSE IF next.k = "List" THEN
    Try(peek_name(next.items), LAMBDA name :
    IF name.val = Kw.start THEN SetSome(textbox, "start", TryFrom("Point", next))
    ELSE IF name.val = Kw.end THEN SetSome(textbox, "end", TryFrom("Point", next))
    ELSE IF name.val = Kw.uuid THEN Set(textbox, "uuid", TryFrom("Uuid", next))
    ELSE IF name.val = Kw.layer THEN Set(textbox, "layer", TryFrom("Layer", next))
    ELSE IF name.val = Kw.angle
      THEN Set(textbox, "angle", discard1_next_maybe_into(next.items, "f64"))
    ELSE IF name.val = Kw.stroke THEN SetSome(textbox, "stroke", TryFrom("Stroke", next))
    ELSE IF name.val = Kw.pts THEN Set(textbox, "points", TryFrom("PointList", next))
    ELSE catch_all(textbox))
  ELSE catch_all(textbox)

FootprintLine_attr(line, attr) ==
  IF attr.k = "Symbol" /\ attr.s = Kw.locked THEN ROk([line EXCEPT !.locked = FALSE])
  ELSE IF attr.k = "List" THEN
    Try(peek_name(attr.items), LAMBDA name :
    IF name.val = Kw.start THEN Set(line, "start", TryFrom("Point", attr))
    ELSE IF name.val = Kw.end THEN Set(line, "end", TryFrom("Point", attr))
    ELSE IF name.val = Kw.layer THEN Set(line, "layer", TryFrom("Layer", attr))
    ELSE IF name.val = Kw.stroke THEN Set(line, "stroke", TryFrom("Stroke", attr))
    ELSE IF name.val = Kw.uuid THEN Set(line, "uuid", TryFrom("Uuid", attr))
    ELSE IF name.val = Kw.width THEN Set(line, "width", discard1_next_into(attr.items, "f32"))
    ELSE catch_all(line))
  ELSE catch_all(line)

FootprintRectangle_attr(rect, attr) ==
  IF attr.k = "Symbol" /\ attr.s = Kw.locked THEN ROk([rect EXCEPT !.locked = FALSE])
  ELSE IF attr.k = "List" THEN
    Try(peek_name(attr.items), LAMBDA name :
    IF name.val = Kw.start THEN Set(rect, "start", TryFrom("Point", attr))
    ELSE IF name.val = Kw.end THEN Set(rect, "end", TryFrom("Point", attr))
    ELSE IF name.val = Kw.layer THEN Set(rect, "layer", TryFrom("Layer", attr))
    ELSE IF name.val = Kw.stroke THEN Set(rect, "stroke", TryFrom("Stroke", attr))
    ELSE IF name.val = Kw.uuid THEN Set(rect, "uuid", TryFrom("Uuid", attr))
    ELSE IF name.val = Kw.fill THEN Set(rect, "fill", fill_is_yes(attr.items))
    ELSE IF name.val = Kw.width THEN Set(rect, "width", discard1_next_into(attr.items, "f32"))
    ELSE catch_all(rect))
  ELSE catch_all(rect)

FootprintCircle_attr(circle, attr) ==
  IF attr.k = "Symbol" /\ attr.s = Kw.locked THEN ROk([circle EXCEPT !.locked = FALSE])
  ELSE IF attr.k = "List" THEN
    Try(peek_name(attr.items), LAMBDA name :
    IF name.val = Kw.center THEN Set(circle, "center", TryFrom("Point", attr))
    ELSE IF name.val = Kw.end THEN Set(circle, "end", TryFrom("Point", attr))
    ELSE IF name.val = Kw.layer THEN Set(circle, "layer", TryFrom("Layer", attr))
    ELSE IF name.val = Kw.stroke THEN Set(circle, "stroke", TryFrom("Stroke", attr))
    ELSE IF name.val = Kw.uuid THEN Set(circle, "uuid", TryFrom("Uuid", attr))
    ELSE IF name.val = Kw.fill THEN Set(circle, "fill", fill_is_yes(attr.items))
    ELSE IF name.val = Kw.width
      THEN Set(circle, "width", discard1_next_into(attr.items, "f32"))
    ELSE catch_all(circle))
  ELSE catch_all(circle)

FootprintArc_attr(arc, attr) ==
  IF attr.k = "Symbol" /\ attr.s = Kw.locked THEN ROk([arc EXCEPT !.locked = FALSE])
  ELSE IF attr.k = "List" THEN
    Try(peek_name(attr.items), LAMBDA name :
    IF name.val = Kw.start THEN Set(arc, "start", TryFrom("Point", attr))
    ELSE IF name.val = Kw.mid THEN Set(arc, "mid", TryFrom("Point", attr))
    ELSE IF name.val = Kw.end THEN Set(arc, "end", TryFrom("Point", attr))
    ELSE IF name.val = Kw.layer THEN Set(arc, "layer", TryFrom("Layer", attr))
    ELSE IF name.val = Kw.stroke THEN Set(arc, "stroke", TryFrom("Stroke", attr))
    ELSE IF name.val = Kw.uuid THEN Set(arc, "uuid", TryFrom("Uuid", attr))
    ELSE IF name.val = Kw.width THEN Set(arc, "width", discard1_next_into(attr.items, "f32"))
    ELSE catch_all(arc))
  ELSE catch_all(arc)

FootprintPolygon_attr(poly, attr) ==
  IF attr.k = "Symbol" /\ attr.s = Kw.locked THEN ROk([poly EXCEPT !.locked = FALSE])
  ELSE IF attr.k = "List" THEN
    Try(peek_name(attr.items), LAMBDA name :
    IF name.val = Kw.pts THEN Set(poly, "points", TryFrom("PointList", attr))
    ELSE IF name.val = Kw.layer THEN Set(poly, "layer", TryFrom("Layer", attr))
    ELSE IF name.val = Kw.stroke THEN Set(poly, "stroke", TryFrom("Stroke", attr))
    ELSE IF name.val = Kw.uuid THEN Set(poly, "uuid", TryFrom("Uuid", attr))
    ELSE IF name.val = Kw.width THEN Set(poly, "width", discard1_next_into(attr.items, "f32"))
    ELSE IF name.val = Kw.fill THEN Set(poly, "fill", fill_is_yes(attr.items))
    ELSE catch_all(poly))
  ELSE catch_all(poly)

FootprintCurve_attr(curve, attr) ==
  IF attr.k = "Symbol" /\ attr.s = Kw.locked THEN ROk([curve EXCEPT !.locked = FALSE])
  ELSE IF attr.k = "List" THEN
    Try(peek_name(attr.items), LAMBDA name :
    IF name.val = Kw.pts THEN Set(curve, "points", TryFrom("PointList", attr))
    ELSE IF name.val = Kw.layer THEN Set(curve, "layer", TryFrom("Layer", attr))
    ELSE IF name.val = Kw.stroke THEN Set(curve, "stroke", TryFrom("Stroke", attr))
    ELSE IF name.val = Kw.uuid THEN Set(curve, "uuid", TryFrom("Uuid", attr))
    ELSE IF name.val = Kw.width
      THEN Set(curve, "width", discard1_next_into(attr.items, "f32"))
    ELSE catch_all(curve))
  ELSE catch_all(curve)

Graphic_attr(kind, acc, next) ==
  CASE kind = "Text" -> FootprintText_attr(acc, next)
    [] kind = "TextBox" -> FootprintTextBox_attr(acc, next)
    [] kind = "Line" -> FootprintLine_attr(acc, next)
    [] kind = "Rectangle" -> FootprintRectangle_attr(acc, next)
    [] kind = "Circle" -> FootprintCircle_attr(acc, next)
    [] kind = "Arc" -> FootprintArc_attr(acc, next)
    [] kind = "Polygon" -> FootprintPolygon_attr(acc, next)
    [] kind = "Curve" -> FootprintCurve_attr(acc, next)

RECURSIVE Graphic_loop(_, _, _)
\* `while let Some(next) = list.next_maybe() { .. }` then `Ok(acc)`
Graphic_loop(kind, items, acc) ==
  IF ~next_maybe(items).some THEN ROk(acc)
  ELSE Try(Graphic_attr(kind, acc, next_maybe(items).v), LAMBDA r :
         Graphic_loop(kind, next_maybe(items).rest, r.val))

\* the tag each conversion of common/graphic.rs asks the leading symbol to end with
GraphicSuffix(kind) ==
  CASE kind = "Text" -> Kw._text [] kind = "TextBox" -> Kw._text_box
    [] kind = "Line" -> Kw._line [] kind = "Rectangle" -> Kw._rect
    [] kind = "Circle" -> Kw._circle [] kind = "Arc" -> Kw._arc
    [] kind = "Polygon" -> Kw._poly [] kind = "Curve" -> Kw._curve

\* the tag each conversion of common/footprint.rs compares the leading symbol with
FootprintTag(kind) ==
  CASE kind = "Text" -> Kw.fp_text [] kind = "TextBox" -> Kw.fp_text_box
    [] kind = "Line" -> Kw.fp_line [] kind = "Rectangle" -> Kw.fp_rect
    [] kind = "Circle" -> Kw.fp_circle [] kind = "Arc" -> Kw.fp_arc
    [] kind = "Polygon" -> Kw.fp_poly [] kind = "Curve" -> Kw.fp_curve

FootprintTagContext(kind) ==
  CASE kind = "Text" -> "src/common/footprint.rs:622" [] kind = "TextBox" -> "src/common/footprint.rs:692"
    [] kind = "Line" -> "src/common/footprint.rs:751" [] kind = "Rectangle" -> "src/common/footprint.rs:804"
    [] kind = "Circle" -> "src/common/footprint.rs:857" [] kind = "Arc" -> "src/common/footprint.rs:910"
    [] kind = "Polygon" -> "src/common/footprint.rs:961" [] kind = "Curve" -> "src/common/footprint.rs:1009"

\* common/graphic.rs: FootprintText::try_from .. FootprintCurve::try_from
GraphicKind_try_from(kind, value) ==
  Try(as_list(value), LAMBDA l :
  Try(symbol_ends_with(l.val, GraphicSuffix(kind)), LAMBDA t :
  Graphic_loop(kind, t.rest, GraphicDefault(kind))))

\* common/footprint.rs: FootprintText::try_from .. FootprintCurve::try_from
FootprintKind_try_from(kind, value) ==
  Try(as_list(value), LAMBDA l :
  Try(expect_eq_next_symbol(l.val, FootprintTag(kind), FootprintTagContext(kind)), LAMBDA t :
  Graphic_loop(kind, t.rest, GraphicDefault(kind))))

Variant(kind, r) == IF r.kind /= "ok" THEN r ELSE ROk([variant |-> kind, value |-> r.val])

\* position of the first "_" at or after position i, 0 when there is none
RECURSIVE FindUnderscore(_, _)
FindUnderscore(s, i) ==
  IF i > Len(s) THEN 0 ELSE IF s[i] = "_" THEN i ELSE FindUnderscore(s, i + 1)

\* full_name.split("_").nth(1)
SplitNth1(s) ==
  With(FindUnderscore(s, 1), LAMBDA p :
    IF p = 0 THEN None
    ELSE With(FindUnderscore(s, p + 1), LAMBDA q :
           Some(SubSeq(s, p + 1, IF q = 0 THEN Len(s) ELSE q - 1))))

Graphic_try_from(value) ==
  Try(as_list(value), LAMBDA l :
  Try(peek_name(l.val), LAMBDA full_name :
  With(SplitNth1(full_name.val), LAMBDA name :
  IF ~name.some
    THEN error_macro(Text("Valid footprint graphic type"), Chars(full_name.val),
                     "src/common/graphic.rs:143")
  ELSE With(CASE name.v = Kw.text -> "Text"
              [] name.v = Kw.text_box -> "TextBox"
              [] name.v = Kw.line -> "Line"
              [] name.v = Kw.rect -> "Rectangle"
              [] name.v = Kw.circle -> "Circle"
              [] name.v = Kw.arc -> "Arc"
              [] name.v = Kw.poly -> "Polygon"
              [] name.v = Kw.curve -> "Curve"
              [] OTHER -> "_",
            LAMBDA arm :
              IF arm /= "_" THEN Variant(arm, GraphicKind_try_from(arm, value))
              ELSE error_macro(Text("Valid footprint graphic type"), Chars(name.v),
                               "src/common/graphic.rs:156")))))

FootprintGraphic_try_from(value) ==
  Try(as_list(value), LAMBDA l :
  Try(peek_name(l.val), LAMBDA name :
  With(CASE name.val = Kw.fp_text -> "Text"
         [] name.val = Kw.fp_text_box -> "TextBox"
         [] name.val = Kw.fp_line -> "Line"
         [] name.val = Kw.fp_rect -> "Rectangle"
         [] name.val = Kw.fp_circle -> "Circle"
         [] name.val = Kw.fp_arc -> "Arc"
         [] name.val = Kw.fp_poly -> "Polygon"
         [] name.val = Kw.fp_curve -> "Curve"
         [] OTHER -> "_",
       LAMBDA arm :
         IF arm /= "_" THEN Variant(arm, FootprintKind_try_from(arm, value))
         ELSE error_macro(Text("Valid footprint graphic type"), Chars(name.val),
                          "src/common/footprint.rs:591"))))


(***************************************************************************)
(* Footprint (src/common/footprint.rs)                                     *)
(***************************************************************************)
FootprintAttributesDefault ==
  [footprint_type |-> "Smd", board_only |-> FALSE, exclude_from_pos_files |-> FALSE,
   exclude_from_bom |-> FALSE]

RECURSIVE FootprintAttributes_loop(_, _)
FootprintAttributes_loop(items, attributes) ==
  Try(next_maybe_symbol(items), LAMBDA next :
  IF ~next.val.some THEN ROk(attributes)
  ELSE FootprintAttributes_loop(next.rest,
         IF next.val.v = Kw.smd THEN [attributes EXCEPT !.footprint_type = "Smd"]
         ELSE IF next.val.v = Kw.through_hole
           THEN [attributes EXCEPT !.footprint_type = "ThroughHole"]
         ELSE IF next.val.v = Kw.board_only THEN [attributes EXCEPT !.board_only = TRUE]
         ELSE IF next.val.v = Kw.exclude_from_pos_files
           THEN [attributes EXCEPT !.exclude_from_pos_files = TRUE]
         ELSE IF next.val.v = Kw.exclude_from_bom
           THEN [attributes EXCEPT !.exclude_from_bom = TRUE]
         ELSE attributes))

FootprintAttributes_try_from(value) ==
  Try(as_list(value), LAMBDA l :
  Try(expect_eq_next_symbol(l.val, Kw.attr, "src/common/footprint.rs:422"), LAMBDA t :
  FootprintAttributes_loop(t.rest, FootprintAttributesDefault)))

\* Footprint::default(), the fields try_from assigns and the pads
FootprintDefault ==
  [library_link |-> None, locked |-> FALSE, placed |-> FALSE, layer |-> LayerDefault,
   uuid |-> None, position |-> None, tags |-> None, description |-> None,
   path |-> None, attributes |-> None, graphics |-> <<>>, pads |-> <<>>]

\* push at the front
Push_mut(rec, field, r) ==
  IF r.kind /= "ok" THEN r ELSE ROk([rec EXCEPT ![field] = <<r.val>> \o @])

\* `footprint.graphics.push(conversion?)`
Push(rec, field, r) ==
  IF r.kind /= "ok" THEN r ELSE ROk([rec EXCEPT ![field] = Append(@, r.val)])

Footprint_attr(footprint, next) ==
  IF next.k = "Value" THEN ROk([footprint EXCEPT !.library_link = Some(next.s)])
  ELSE IF next.k = "Symbol" /\ next.s = Kw.locked THEN ROk([footprint EXCEPT !.locked = TRUE])
  ELSE IF next.k = "Symbol" /\ next.s = Kw.placed THEN ROk([footprint EXCEPT !.placed = TRUE])
  ELSE IF next.k = "List" THEN
    Try(peek_name(next.items), LAMBDA name :
    IF name.val = Kw.uuid THEN SetSome(footprint, "uuid", TryFrom("Uuid", next))
    ELSE IF name.val = Kw.layer THEN Set(footprint, "layer", TryFrom("Layer", next))
    ELSE IF name.val = Kw.at THEN SetSome(footprint, "position", TryFrom("Position", next))
    ELSE IF name.val = Kw.description
      THEN SetSome(footprint, "description", discard1_next_into(next.items, "String"))
    ELSE IF name.val = Kw.tags
      THEN SetSome(footprint, "tags", discard1_next_into(next.items, "String"))
    ELSE IF name.val = Kw.path
      THEN SetSome(footprint, "path", discard1_next_into(next.items, "String"))
    ELSE IF name.val = Kw.attr
      THEN SetSome(footprint, "attributes", TryFrom("FootprintAttributes", next))
    ELSE IF StartsWith(name.val, Kw.fp_)
      THEN Push(footprint, "graphics", TryFrom("FootprintGraphic", next))
    ELSE catch_all(footprint))
  ELSE catch_all(footprint)

RECURSIVE Footprint_loop(_, _)
Footprint_loop(items, footprint) ==
  IF ~next_maybe(items).some THEN ROk(footprint)
  ELSE Try(Footprint_attr(footprint, next_maybe(items).v), LAMBDA r :
         Footprint_loop(next_maybe(items).rest, r.val))

\* the loop starts at the first child: the leading tag is one more child
Footprint_try_from(value) ==
  Try(as_list(value), LAMBDA l : Footprint_loop(l.val, FootprintDefault))

(***************************************************************************)
(* The board (src/pcb_file)                                                *)
(***************************************************************************)
PcbNet_try_from(value) ==
  Try(as_list(value), LAMBDA l :
  Try(expect_eq_next_symbol(l.val, Kw.net, "src/pcb_file/pcb_net.rs:16"), LAMBDA t :
  Try(next_into(t.rest, "u32"), LAMBDA ordinal :
  Try(next_into(ordinal.rest, "String"), LAMBDA name :
  ROk([ordinal |-> ordinal.val, name |-> name.val])))))

PcbLayer_fields(layer_list) ==
  Try(next_into(layer_list, "u32"), LAMBDA ordinal :
  Try(next_into(ordinal.rest, "String"), LAMBDA name :
  Try(next_into(name.rest, "PcbLayerType"), LAMBDA layer_type :
  Try(next_maybe_into(layer_type.rest, "String"), LAMBDA user_name :
  ROk([ordinal |-> ordinal.val, name |-> name.val, layer_type |-> layer_type.val,
       user_name |-> user_name.val])))))

RECURSIVE PcbLayers_loop(_, _)
PcbLayers_loop(items, acc) ==
  Try(next_maybe_list(items), LAMBDA layer_list :
  IF ~layer_list.val.some THEN ROk(acc)
  ELSE Try(PcbLayer_fields(layer_list.val.v), LAMBDA r :
         PcbLayers_loop(layer_list.rest, Append(acc, r.val))))

\* TryFrom<SExpr> for Vec<PcbLayer>
PcbLayers_try_from(value) ==
  Try(as_list(value), LAMBDA l :
  Try(expect_eq_next_symbol(l.val, Kw.layers, "src/pcb_file/pcb_layer.rs:24"), LAMBDA t :
  PcbLayers_loop(t.rest, <<>>)))

PcbFileGeneralDefault == [thickness |-> 0]

RECURSIVE PcbFileGeneral_loop(_, _)
PcbFileGeneral_loop(items, general) ==
  Try(next_maybe_list(items), LAMBDA child :
  IF ~child.val.some THEN ROk(general)
  ELSE Try(next_symbol(child.val.v), LAMBDA name :
       IF name.val = Kw.thickness
         THEN Try(Set(general, "thickness", next_into(name.rest, "f64")), LAMBDA r :
                PcbFileGeneral_loop(child.rest, r.val))
       ELSE PcbFileGeneral_loop(child.rest, general)))

PcbFileGeneral_try_from(value) ==
  Try(as_list(value), LAMBDA l :
  Try(expect_eq_next_symbol(l.val, Kw.general, "src/pcb_file/pcb_file_general.rs:17"), LAMBDA t :
  PcbFileGeneral_loop(t.rest, PcbFileGeneralDefault)))

DecimalDigit(d) == <<"0", "1", "2", "3", "4", "5", "6", "7", "8", "9">>[d + 1]

RECURSIVE ToDecimal(_)
\* u64::to_string
ToDecimal(n) ==
  IF n < 10 THEN <<DecimalDigit(n)>>
  ELSE Append(ToDecimal(n \div 10), DecimalDigit(n % 10))

\* `version as u64`
SaturateU64(d) == IF d < 0 THEN 0 ELSE d

PcbFileDefault ==
  [version |-> <<>>, generator |-> <<>>, generator_version |-> <<>>, paper |-> <<>>,
   general |-> PcbFileGeneralDefault, layers |-> <<>>, properties |-> <<>>,
   nets |-> <<>>, footprints |-> <<>>, graphics |-> <<>>]

PcbFile_attr(pcb_file, child) ==
  Try(peek_name(child), LAMBDA name :
  IF name.val = Kw.version
    THEN Try(discard1_next_into(child, "f64"), LAMBDA version :
           ROk([pcb_file EXCEPT !.version = ToDecimal(SaturateU64(version.val))]))
  ELSE IF name.val = Kw.generator
    THEN Set(pcb_file, "generator", discard1_next_into(child, "String"))
  ELSE IF name.val = Kw.generator_version
    THEN Set(pcb_file, "generator_version", discard1_next_into(child, "String"))
  ELSE IF name.val = Kw.paper THEN Set(pcb_file, "paper", discard1_next_into(child, "String"))
  ELSE IF name.val = Kw.general THEN Set(pcb_file, "general", TryFrom("PcbFileGeneral", SList(child)))
  ELSE IF name.val = Kw.layers THEN Set(pcb_file, "layers", TryFrom("PcbLayers", SList(child)))
  ELSE IF name.val = Kw.net THEN Push(pcb_file, "nets", TryFrom("PcbNet", SList(child)))
  ELSE IF name.val = Kw.footprint
    THEN Push(pcb_file, "footprints", TryFrom("Footprint", SList(child)))
  ELSE IF StartsWith(name.val, Kw.gr_)
    THEN Push(pcb_file, "graphics", TryFrom("Graphic", SList(child)))
  ELSE ROk(pcb_file))

RECURSIVE PcbFile_loop(_, _)
PcbFile_loop(items, pcb_file) ==
  Try(next_maybe_list(items), LAMBDA child :
  IF ~child.val.some THEN ROk(pcb_file)
  ELSE Try(PcbFile_attr(pcb_file, child.val.v), LAMBDA r :
         PcbFile_loop(child.rest, r.val)))

PcbFile_try_from(value) ==
  Try(as_list(value), LAMBDA l :
  Try(expect_eq_next_symbol(l.val, Kw.kicad_pcb, "src/pcb_file/mod.rs:56"), LAMBDA t :
  PcbFile_loop(t.rest, PcbFileDefault)))

(***************************************************************************)
(* Pad (src/common/footprint.rs)                                           *)
(***************************************************************************)
PadKw ==
  [ pad |-> <<"p", "a", "d">>,
    smd |-> <<"s", "m", "d">>,
    connect |-> <<"c", "o", "n", "n", "e", "c", "t">>,
    thru_hole |-> <<"t", "h", "r", "u", "_", "h", "o", "l", "e">>,
    np_thru_hole |-> <<"n", "p", "_", "t", "h", "r", "u", "_", "h", "o", "l", "e">>,
    oval |-> <<"o", "v", "a", "l">>,
    circle |-> <<"c", "i", "r", "c", "l", "e">>,
    custom |-> <<"c", "u", "s", "t", "o", "m">>,
    rect |-> <<"r", "e", "c", "t">>,
    trapezoid |-> <<"t", "r", "a", "p", "e", "z", "o", "i", "d">>,
    roundrect |-> <<"r", "o", "u", "n", "d", "r", "e", "c", "t">>,
    size |-> <<"s", "i", "z", "e">>,
    layers |-> <<"l", "a", "y", "e", "r", "s">> ]

\* Pad::default(): #[default] of PadType is ThroughHole, of PadShape Rectangle
PadDefault ==
  [number |-> <<>>, pad_type |-> "ThroughHole", shape |-> "Rectangle",
   position |-> PositionDefault, locked |-> FALSE, size |-> <<0, 0>>, drill |-> None,
   layers |-> <<>>, properties |-> <<>>, remove_unused_layers |-> FALSE,
   keep_end_layers |-> FALSE, roundrect_rratio |-> None, chamfer_ratio |-> None,
   chamfer |-> <<>>, net |-> None, uuid |-> Uuid_new, pin_function |-> None,
   pin_type |-> None, die_length |-> None, solder_mask_margin |-> None,
   solder_paste_margin |-> None, solder_paste_margin_ratio |-> None,
   clearance |-> None, zone_connection |-> None, thermal_width |-> None,
   thermal_gap |-> None, custom_options |-> None, custom_primitives |-> None]

RECURSIVE Pad_layers_loop(_, _)
\* while let Some(layer) = attr.next_maybe_list()? { pad.layers.push(layer.as_sexpr_into()?) }
Pad_layers_loop(items, pad) ==
  Try(next_maybe_list(items), LAMBDA layer :
  IF ~layer.val.some THEN ROk(pad)
  ELSE Try(Push(pad, "layers", TryFrom("Layer", SList(layer.val.v))), LAMBDA r :
         Pad_layers_loop(layer.rest, r.val)))

\* one turn of `while let Some(list) = list.next_maybe() { match list {..} }`
Pad_attr(pad, next) ==
  IF next.k = "Symbol" /\ next.s = Kw.locked THEN ROk([pad EXCEPT !.locked = FALSE])
  ELSE IF next.k = "Symbol" /\ next.s = PadKw.smd THEN ROk([pad EXCEPT !.pad_type = "Smd"])
  ELSE IF next.k = "Symbol" /\ next.s = PadKw.connect
    THEN ROk([pad EXCEPT !.pad_type = "Connect"])
  ELSE IF next.k = "Symbol" /\ next.s = PadKw.thru_hole
    THEN ROk([pad EXCEPT !.pad_type = "ThroughHole"])
  ELSE IF next.k = "Symbol" /\ next.s = PadKw.np_thru_hole
    THEN ROk([pad EXCEPT !.pad_type = "NonPlatedThroughHole"])
  ELSE IF next.k = "Symbol" /\ next.s = PadKw.oval THEN ROk([pad EXCEPT !.shape = "Oval"])
  ELSE IF next.k = "Symbol" /\ next.s = PadKw.circle THEN ROk([pad EXCEPT !.shape = "Circle"])
  ELSE IF next.k = "Symbol" /\ next.s = PadKw.custom THEN ROk([pad EXCEPT !.shape = "Custom"])
  ELSE IF next.k = "Symbol" /\ next.s = PadKw.rect
    THEN ROk([pad EXCEPT !.shape = "Rectangle"])
  ELSE IF next.k = "Symbol" /\ next.s = PadKw.trapezoid
    THEN ROk([pad EXCEPT !.shape = "Trapezoid"])
  ELSE IF next.k = "Symbol" /\ next.s = PadKw.roundrect
    THEN ROk([pad EXCEPT !.shape = "RoundedRectangle"])
  ELSE IF next.k = "List" THEN
    Try(peek_name(next.items), LAMBDA name :
    IF name.val = PadKw.size THEN
      Try(discard(next.items, 1), LAMBDA d :
      Try(next_into(d.rest, "f64"), LAMBDA x :
      Try(next_into(x.rest, "f64"), LAMBDA y :
      ROk([pad EXCEPT !.size = <<x.val, y.val>>]))))
    ELSE IF name.val = PadKw.layers THEN
      Try(discard(next.items, 1), LAMBDA d : Pad_layers_loop(d.rest, pad))
    ELSE catch_all(pad))
  ELSE catch_all(pad)

RECURSIVE Pad_loop(_, _)
Pad_loop(items, pad) ==
  IF ~next_maybe(items).some THEN ROk(pad)
  ELSE Try(Pad_attr(pad, next_maybe(items).v), LAMBDA r :
         Pad_loop(next_maybe(items).rest, r.val))

Pad_try_from(value) ==
  Try(as_list(value), LAMBDA l :
  Try(expect_eq_next_symbol(l.val, PadKw.pad, "src/common/footprint.rs:1100"), LAMBDA t :
  Pad_loop(t.rest, PadDefault)))

\* the implementations of TryFrom<SExpr>
TryFrom(T, expr) ==
  CASE T = "SExprSymbol" -> as_symbol(expr)
    [] T = "SExprValue" -> as_value(expr)
    [] T = "SExprList" -> as_list(expr)
    [] T = "String" -> as_string(expr)
    [] T = "f64" -> as_f64(expr)
    [] T = "f32" -> as_f32(expr)
    [] T = "u32" -> as_u32(expr)
    [] T = "u8" -> as_u8(expr)
    [] T = "Position" -> Position_try_from(expr)
    [] T = "Point" -> Point_try_from(expr)
    [] T = "PointList" -> PointList_try_from(expr)
    [] T = "StrokeType" -> StrokeType_try_from(expr)
    [] T = "RgbaColor" -> RgbaColor_try_from(expr)
    [] T = "Stroke" -> Stroke_try_from(expr)
    [] T = "Uuid" -> Uuid_try_from(expr)
    [] T = "Layer" -> Layer_try_from(expr)
    [] T = "Graphic" -> Graphic_try_from(expr)
    [] T = "FootprintGraphic" -> FootprintGraphic_try_from(expr)
    [] T = "FootprintAttributes" -> FootprintAttributes_try_from(expr)
    [] T = "Footprint" -> Footprint_try_from(expr)
    [] T = "Pad" -> Pad_try_from(expr)
    [] T = "PcbNet" -> PcbNet_try_from(expr)
    [] T = "PcbLayerType" -> PcbLayerType_try_from(expr)
    [] T = "PcbLayers" -> PcbLayers_try_from(expr)
    [] T = "PcbFileGeneral" -> PcbFileGeneral_try_from(expr)
    [] T = "PcbFile" -> PcbFile_try_from(expr)

parse_pcb_file(input) ==
  With(parse_sexpr(input), LAMBDA sexprs :
    IF sexprs.kind = "panic" THEN Panicked
    ELSE IF sexprs.kind = "err"
      THEN RErr(ParserError("SExpressionError", Text("valid KiCad PCB file"),
                            Text(sexprs.msg), "src/pcb_file/mod.rs:26"))
    ELSE TryFrom("PcbFile", SList(sexprs.val)))


(***************************************************************************)
(* Conversion specification: an input tree is drawn, written out as text,  *)
(* and one of the entry points is applied to the text.                     *)
(***************************************************************************)
MaxBoardFields == 3
MaxClock == 2

Sym(s) == SSymbol(s)
Num(n) == SFloat(n)
Str(s) == SValue(s)
Raw(s) == [k |-> "Raw", s |-> s]

RECURSIVE Unparse(_)
RECURSIVE UnparseItems(_)
\* the text of a tree: children of a list separated by one space
Unparse(n) ==
  CASE n.k = "List" -> <<"(">> \o UnparseItems(n.items) \o <<")">>
    [] n.k = "Symbol" -> n.s
    [] n.k = "Value" -> <<"\"">> \o n.s \o <<"\"">>
    [] n.k = "Float" -> ToDecimal(n.v)
    [] n.k = "Raw" -> n.s

UnparseItems(items) ==
  IF items = <<>> THEN <<>>
  ELSE IF Len(items) = 1 THEN Unparse(items[1])
  ELSE Unparse(Head(items)) \o <<" ">> \o UnparseItems(Tail(items))

s_foo == <<"f", "o", "o">>
s_future_field == <<"f", "u", "t", "u", "r", "e", "_", "f", "i", "e", "l", "d">>
s_layerselection ==
  <<"l", "a", "y", "e", "r", "s", "e", "l", "e", "c", "t", "i", "o", "n">>
s_blob == <<"b", "l", "o", "b">>
s__blob == <<"_", "b", "l", "o", "b">>
HexOk == <<"0", "x", "0", "0", "_", "f", "f">>
HexUnderscores == <<"0", "x", "_">>
HexOverflow ==
  <<"0", "x", "1", "0", "0", "0", "0", "0", "0", "0", "0", "0", "0", "0", "0", "0",
    "0", "0", "0">>

NetTable ==
  [NET1 |-> [ordinal |-> 1, name |-> <<"a">>], NET2 |-> [ordinal |-> 2, name |-> <<"b">>]]

LayerDecls ==
  << [ordinal |-> 0, name |-> <<"F", ".", "C", "u">>, layer_type |-> "Signal",
      user_name |-> None],
     [ordinal |-> 31, name |-> <<"B", ".", "C", "u">>, layer_type |-> "Power",
      user_name |-> Some(<<"u">>)] >>

LayerTypeSymbol(t) ==
  CASE t = "User" -> Kw.user [] t = "Jumper" -> Kw.jumper [] t = "Mixed" -> Kw.mixed
    [] t = "Power" -> Kw.power [] t = "Signal" -> Kw.signal

LayerDeclNode(d) ==
  SList(<<Num(d.ordinal), Str(d.name), Sym(LayerTypeSymbol(d.layer_type))>>
        \o (IF d.user_name.some THEN <<Str(d.user_name.v)>> ELSE <<>>))

PointNode(tag, p) == SList(<<Sym(tag), Num(p.x), Num(p.y)>>)

LineStart == [x |-> 1, y |-> 2]
LineEnd == [x |-> 3, y |-> 4]
FootprintAt == [x |-> 5, y |-> 6, angle |-> None]

LineMenu == <<"START", "END", "BADSTART">>

LineFieldNode(id) ==
  CASE id = "START" -> PointNode(Kw.start, LineStart)
    [] id = "END" -> PointNode(Kw.end, LineEnd)
    [] id = "BADSTART" -> SList(<<Sym(Kw.start), Num(1)>>)

\* the members of a menu that are in S, in menu order
Pick(menu, S) == SelectSeq(menu, LAMBDA id : id \in S)

Map(f(_), s) == [n \in 1..Len(s) |-> f(s[n])]

GraphicNode(tag, fields) == SList(<<Sym(tag)>> \o Map(LineFieldNode, fields))

FpMenu == <<"LIB", "FUTURE", "AT", "BADAT", "LINE", "BADLINE">>

FpFieldNode(id) ==
  CASE id = "LIB" -> Str(<<"x">>)
    [] id = "FUTURE" -> SList(<<Sym(s_future_field), Num(1), Num(2)>>)
    [] id = "AT" -> SList(<<Sym(Kw.at), Num(FootprintAt.x), Num(FootprintAt.y)>>)
    [] id = "BADAT" -> SList(<<Sym(Kw.at), Num(1)>>)
    [] id = "LINE" -> GraphicNode(Kw.fp_line, <<"START", "END">>)
    [] id = "BADLINE" -> GraphicNode(Kw.fp_line, <<"BADSTART">>)

FootprintNode(tag, fields) == SList(<<Sym(tag)>> \o Map(FpFieldNode, fields))

BoardMenu ==
  {"NET1", "NET2", "BADNET", "LAYERS", "FP", "BADFP", "HEXOK", "HEXUNDER", "HEXOVER"}

BoardFieldNode(id) ==
  CASE id \in {"NET1", "NET2"} ->
         SList(<<Sym(Kw.net), Num(NetTable[id].ordinal), Str(NetTable[id].name)>>)
    [] id = "BADNET" -> SList(<<Sym(Kw.net), Str(<<"a">>)>>)
    [] id = "LAYERS" -> SList(<<Sym(Kw.layers)>> \o Map(LayerDeclNode, LayerDecls))
    [] id = "FP" -> FootprintNode(Kw.footprint, <<"LIB", "AT", "LINE">>)
    [] id = "BADFP" -> FootprintNode(Kw.footprint, <<"LIB", "BADLINE">>)
    [] id = "HEXOK" -> SList(<<Sym(s_layerselection), Raw(HexOk)>>)
    [] id = "HEXUNDER" -> SList(<<Sym(s_layerselection), Raw(HexUnderscores)>>)
    [] id = "HEXOVER" -> SList(<<Sym(s_layerselection), Raw(HexOverflow)>>)

BoardNode(root, fields) == SList(<<Sym(root)>> \o Map(BoardFieldNode, fields))

\* sequences of distinct members of S, at most n long
DistinctSeqs(S, n) ==
  {s \in UNION {[1..m -> S] : m \in 0..n} : \A i, j \in DOMAIN s : s[i] = s[j] => i = j}

GraphicTags ==
  {p \o s : p \in {<<"g", "r">>, <<"f", "p">>},
            s \in {Kw._text, Kw._text_box, Kw._line, Kw._rect, Kw._circle, Kw._arc, Kw._poly,
                   Kw._curve, s__blob}}
    \cup {s_blob}

BoardInputs ==
  [kind : {"board"}, root : {Kw.kicad_pcb, s_foo},
   fields : DistinctSeqs(BoardMenu, MaxBoardFields), trunc : BOOLEAN]

FootprintInputs ==
  {[kind |-> "footprint", tag |-> t, fields |-> Pick(FpMenu, S)] :
     t \in {Kw.footprint, s_foo}, S \in SUBSET {FpMenu[n] : n \in DOMAIN FpMenu}}

GraphicInputs ==
  {[kind |-> "graphic", tag |-> t, fields |-> Pick(LineMenu, S)] :
     t \in GraphicTags, S \in SUBSET {LineMenu[n] : n \in DOMAIN LineMenu}}

PointInputs ==
  {[kind |-> "point", tag |-> t, coords |-> c] :
     t \in {Kw.xy, Kw.start, s_foo}, c \in {<<1>>, <<1, 2>>, <<1, 2, 3>>}}

InputTree(i) ==
  CASE i.kind = "board" -> BoardNode(i.root, i.fields)
    [] i.kind = "footprint" -> FootprintNode(i.tag, i.fields)
    [] i.kind = "graphic" -> GraphicNode(i.tag, i.fields)
    [] i.kind = "point" -> SList(<<Sym(i.tag)>> \o Map(Num, i.coords))

\* a truncated input lacks its last character
InputText(i) ==
  LET t == Unparse(InputTree(i))
  IN IF i.kind = "board" /\ i.trunc THEN SubSeq(t, 1, Len(t) - 1) ELSE t

\* parse_sexpr(text)?.as_sexpr_into::<T>() for the entry points of the calls
parse_into(T, input) ==
  Try(parse_sexpr(input), LAMBDA sexprs : TryFrom(T, SList(sexprs.val)))

InitConv ==
  /\ inp \in BoardInputs \cup FootprintInputs \cup GraphicInputs \cup PointInputs
  /\ text = InputText(inp)
  /\ call = "none"
  /\ pc = "ready"
  /\ out = [kind |-> "none"]
  /\ now = 1

Call(name, result) ==
  /\ pc = "ready"
  /\ pc' = "done"
  /\ call' = name
  /\ out' = result
  /\ UNCHANGED <<inp, text, now>>

\* the system clock advances between the construction of the input and the call
Tick ==
  /\ pc = "ready"
  /\ now < MaxClock
  /\ now' = now + 1
  /\ UNCHANGED <<inp, text, call, pc, out>>

CallParsePcbFile ==
  /\ inp.kind = "board"
  /\ Call("parse_pcb_file", parse_pcb_file(text))

CallFootprint ==
  /\ inp.kind = "footprint"
  /\ Call("Footprint::try_from", parse_into("Footprint", text))

CallGraphic ==
  /\ inp.kind = "graphic"
  /\ Call("Graphic::try_from", parse_into("Graphic", text))

CallPoint ==
  /\ inp.kind = "point"
  /\ Call("Point::try_from", parse_into("Point", text))

NextConv ==
  \/ Tick
  \/ CallParsePcbFile
  \/ CallFootprint
  \/ CallGraphic
  \/ CallPoint

SpecConv == InitConv /\ [][NextConv]_vars


(***************************************************************************)
(* Properties of the conversions                                           *)
(***************************************************************************)
Range(s) == {s[n] : n \in DOMAIN s}

BoardCall == call = "parse_pcb_file"

\* C3: parse_pcb_file ends by returning a board or an error value, whatever
\* the text holds, hex tokens of more than 64 bits or of underscores only
\* included; it never panics.
C3_NeverPanics == BoardCall => out.kind \in {"ok", "err"}

GoodBoardFields == {"NET1", "NET2", "LAYERS", "FP", "HEXOK"}

GoodBoard ==
  /\ inp.root = Kw.kicad_pcb
  /\ ~inp.trunc
  /\ Range(inp.fields) \subseteq GoodBoardFields

\* the nets written in the text, in the order of the text
WrittenNets(fields) ==
  Map(LAMBDA id : NetTable[id], SelectSeq(fields, LAMBDA id : id \in {"NET1", "NET2"}))

LineAsWritten(g) ==
  /\ g.variant = "Line"
  /\ g.value.start = LineStart
  /\ g.value.end = LineEnd

\* C4: a board text with nets, a layer declaration and a footprint holding
\* one fp_line parses to a board whose nets, layers and
\* footprints[0].graphics[0] carry the ordinals, names and coordinates of
\* the text, in the order of declaration.
C4_RoundTrip ==
  (BoardCall /\ GoodBoard) =>
    /\ out.kind = "ok"
    /\ out.val.nets = WrittenNets(inp.fields)
    /\ out.val.layers = (IF "LAYERS" \in Range(inp.fields) THEN LayerDecls ELSE <<>>)
    /\ Len(out.val.footprints) = (IF "FP" \in Range(inp.fields) THEN 1 ELSE 0)
    /\ \A n \in DOMAIN out.val.footprints :
         /\ Len(out.val.footprints[n].graphics) = 1
         /\ LineAsWritten(out.val.footprints[n].graphics[1])
         /\ out.val.footprints[n].position = Some(FootprintAt)

C4_Witness ==
  /\ BoardCall
  /\ GoodBoard
  /\ inp.fields = <<"NET2", "LAYERS", "FP">>
  /\ out.kind = "ok"
  /\ Len(out.val.layers) = Len(LayerDecls)
  /\ LineAsWritten(out.val.footprints[1].graphics[1])

FootprintCall == call = "Footprint::try_from"

\* C5: a footprint list with an unrecognized nested list converts: the
\* recognized fields before and after the unrecognized list are populated
\* and no error is raised.
C5_UnknownTolerated ==
  (/\ FootprintCall
   /\ inp.tag = Kw.footprint
   /\ "FUTURE" \in Range(inp.fields)
   /\ Range(inp.fields) \cap {"BADAT", "BADLINE"} = {}) =>
    /\ out.kind = "ok"
    /\ out.val.library_link = (IF "LIB" \in Range(inp.fields) THEN Some(<<"x">>) ELSE None)
    /\ out.val.position = (IF "AT" \in Range(inp.fields) THEN Some(FootprintAt) ELSE None)
    /\ Len(out.val.graphics) = (IF "LINE" \in Range(inp.fields) THEN 1 ELSE 0)
    /\ \A n \in DOMAIN out.val.graphics : LineAsWritten(out.val.graphics[n])

C5_Witness ==
  /\ FootprintCall
  /\ inp.tag = Kw.footprint
  /\ inp.fields = <<"LIB", "FUTURE", "AT", "LINE">>
  /\ out.kind = "ok"
  /\ out.val.position = Some(FootprintAt)
  /\ Len(out.val.graphics) = 1

\* the error names the two tags, whichever field holds which
NamesBoth(e, expected, found) ==
  {e.expected, e.found} = {Chars(expected), Chars(found)}

\* C6: a conversion verifies the leading tag of its list against the keyword
\* of its type; on a mismatch it fails with an error naming the expected
\* and the found tag.
C6_TagVerified ==
  /\ (FootprintCall /\ inp.tag /= Kw.footprint) => out.kind = "err"
  /\ (BoardCall /\ inp.root /= Kw.kicad_pcb /\ ~inp.trunc
        /\ Range(inp.fields) \cap {"HEXUNDER", "HEXOVER"} = {}) =>
       /\ out.kind = "err"
       /\ NamesBoth(out.err, Kw.kicad_pcb, inp.root)

GraphicCall == call = "Graphic::try_from"

\* the variant the suffix of a tag stands for, "" when it has none of the eight
SuffixVariant(tag) ==
  IF EndsWith(tag, <<"_">> \o Kw.text_box) THEN "TextBox"
  ELSE IF EndsWith(tag, <<"_">> \o Kw.text) THEN "Text"
  ELSE IF EndsWith(tag, <<"_">> \o Kw.line) THEN "Line"
  ELSE IF EndsWith(tag, <<"_">> \o Kw.rect) THEN "Rectangle"
  ELSE IF EndsWith(tag, <<"_">> \o Kw.circle) THEN "Circle"
  ELSE IF EndsWith(tag, <<"_">> \o Kw.arc) THEN "Arc"
  ELSE IF EndsWith(tag, <<"_">> \o Kw.poly) THEN "Polygon"
  ELSE IF EndsWith(tag, <<"_">> \o Kw.curve) THEN "Curve"
  ELSE ""

\* C7: the graphic conversion dispatches on the suffix of the tag, for the
\* gr_ and the fp_ family alike: each of the eight suffixes gives its
\* variant, and a tag with none of them is an error naming the tag.
C7_SuffixDispatch ==
  (GraphicCall /\ "BADSTART" \notin Range(inp.fields)) =>
    IF SuffixVariant(inp.tag) /= ""
      THEN out.kind = "ok" /\ out.val.variant = SuffixVariant(inp.tag)
      ELSE /\ out.kind = "err"
           /\ out.err.found.k = "Chars"
           /\ EndsWith(inp.tag, out.err.found.s)

\* the input holds a lexical or a structural error
Defective ==
  \/ inp.root /= Kw.kicad_pcb
  \/ inp.trunc
  \/ Range(inp.fields) \cap {"BADNET", "BADFP", "HEXOVER"} /= {}

C9_ContextTrail ==
  (/\ BoardCall
   /\ inp.root = Kw.kicad_pcb
   /\ ~inp.trunc
   /\ "BADFP" \in Range(inp.fields)
   /\ Range(inp.fields) \subseteq GoodBoardFields \cup {"BADFP"}) =>
    /\ out.kind = "err"
    /\ Len(out.err.in_context) >= Len(<<"graphic", "footprint", "board">>)


(***************************************************************************)
(* Token specification: one token is written chunk by chunk between the    *)
(* parentheses of a list, then parse_sexpr is called on the text.          *)
(***************************************************************************)
MaxTokChunks == 5

TokChunks == {"0x", "Z8", "H8", "L8", "US", "F", "ONE", "QUOTE", "SP"}

TokChunkText(c) ==
  CASE c = "0x" -> <<"0", "x">>
    [] c = "Z8" -> <<"0", "0", "0", "0", "0", "0", "0", "0", "_">>
    [] c = "H8" -> <<"5", "5", "5", "5", "5", "5", "5", "5", "_">>
    [] c = "L8" -> <<"5", "7", "5", "5", "f", "5", "f", "f">>
    [] c = "US" -> <<"_">>
    [] c = "F" -> <<"F">>
    [] c = "ONE" -> <<"1">>
    [] c = "QUOTE" -> <<"\"">>
    [] c = "SP" -> <<" ">>

InitTok ==
  /\ inp = [kind |-> "token", toks |-> <<>>]
  /\ text = <<"(", ")">>
  /\ call = "none"
  /\ pc = "build"
  /\ out = [kind |-> "none"]
  /\ now = 1

HexChunks == {"Z8", "H8", "L8", "US", "F", "ONE"}

\* "0x" followed by hex chunks
HexPrefix(toks) ==
  /\ toks /= <<>>
  /\ toks[1] = "0x"
  /\ \A n \in 2..Len(toks) : toks[n] \in HexChunks

\* the chunk goes in front of the closing parenthesis; the chunks of eight
\* digits are written in hex tokens only
AppendTok(c) ==
  /\ pc = "build"
  /\ Len(inp.toks) < MaxTokChunks
  /\ c \in {"Z8", "H8", "L8"} => HexPrefix(inp.toks)
  /\ inp' = [inp EXCEPT !.toks = Append(@, c)]
  /\ text' = SubSeq(text, 1, Len(text) - 1) \o TokChunkText(c) \o <<")">>
  /\ UNCHANGED <<call, pc, out, now>>

CallParseToken ==
  /\ pc = "build"
  /\ pc' = "done"
  /\ call' = "parse_sexpr"
  /\ out' = parse_sexpr(text)
  /\ UNCHANGED <<inp, text, now>>

NextTok ==
  \/ \E c \in TokChunks : AppendTok(c)
  \/ CallParseToken

SpecTok == InitTok /\ [][NextTok]_vars

\* the characters of the token: the text without its two parentheses
TokenText == SubSeq(text, 2, Len(text) - 1)

TokenParsed == pc = "done" /\ call = "parse_sexpr" /\ inp.kind = "token"

\* "0x" followed by hex digits and underscores, one hex digit at least
HexToken ==
  /\ HexPrefix(inp.toks)
  /\ \E n \in 2..Len(inp.toks) : inp.toks[n] /= "US"

TokenDigits == StripUnderscores(SubSeq(TokenText, 3, Len(TokenText)))

\* v * 16 + d modulo 2^64, v held as four 16-bit limbs, most significant first
U64MulAdd(v, d) ==
  <<(v[1] * 16 + v[2] \div 4096) % 65536,
    (v[2] * 16 + v[3] \div 4096) % 65536,
    (v[3] * 16 + v[4] \div 4096) % 65536,
    (v[4] * 16 + d) % 65536>>

RECURSIVE Denoted(_, _)
\* the unsigned 64-bit integer a run of hex digits denotes
Denoted(ds, acc) ==
  IF ds = <<>> THEN acc
  ELSE Denoted(Tail(ds), U64MulAdd(acc, HexDigitVal(LowerHex(Head(ds)))))

\* the limbs of the value a hex node holds
NodeLimbs(h) ==
  [k \in 1..4 |->
     HexVal([n \in 1..4 |->
               IF 4 * (k - 1) + n <= U64HexDigits - Len(h) THEN "0"
               ELSE h[4 * (k - 1) + n - (U64HexDigits - Len(h))]], 0)]

RECURSIVE FitsU64(_, _)
\* no step of the accumulation carries out of the 64 bits
FitsU64(ds, acc) ==
  \/ ds = <<>>
  \/ /\ acc[1] < 4096
     /\ FitsU64(Tail(ds), U64MulAdd(acc, HexDigitVal(LowerHex(Head(ds)))))

QuotedToken ==
  /\ Len(inp.toks) >= 2
  /\ inp.toks[1] = "QUOTE"
  /\ inp.toks[Len(inp.toks)] = "QUOTE"
  /\ \A n \in 2..(Len(inp.toks) - 1) : inp.toks[n] /= "QUOTE"

\* C12: a quoted token parses to a quoted-value node whose payload is the
\* characters between the two quote characters, the empty string for the
\* token of two adjacent quote characters.
C12_QuotedPayload ==
  (TokenParsed /\ QuotedToken) =>
    /\ out.kind = "ok"
    /\ out.val = <<SValue(SubSeq(TokenText, 2, Len(TokenText) - 1))>>

(***************************************************************************)
(* The cursor: an SExprList built child by child, then stepped by the      *)
(* operations of sexpr/sexpr_list.rs.  inp.list is the cursor, inp.before  *)
(* the cursor as it was when the last operation started.                   *)
(***************************************************************************)
MaxCursor == 2

CursorAtoms == {SSymbol(Kw.at), SSymbol(Kw.yes), SValue(<<"1">>), SFloat(1)}

\* the positional records, each in a form its conversion accepts
Positional(T) ==
  CASE T = "Position" -> <<SSymbol(Kw.at), SFloat(1), SFloat(2), SFloat(3)>>
    [] T = "Point" -> <<SSymbol(Kw.xy), SFloat(1), SFloat(2)>>
    [] T = "RgbaColor" -> <<SSymbol(Kw.color), SFloat(1), SFloat(1), SFloat(1), SFloat(1)>>
    [] T = "Uuid" -> <<SSymbol(Kw.uuid), SValue(<<"1">>)>>
    [] T = "Layer" -> <<SSymbol(Kw.layer), SValue(<<"F", ".", "C", "u">>)>>

PositionalTypes == {"Position", "Point", "RgbaColor", "Uuid", "Layer"}

\* (at 1 2) and (at 1 2 yes)
AtNoAngle == SList(<<SSymbol(Kw.at), SFloat(1), SFloat(2)>>)
AtSymbolAngle == SList(<<SSymbol(Kw.at), SFloat(1), SFloat(2), SSymbol(Kw.yes)>>)

CursorChildren ==
  CursorAtoms
    \cup {SList(Positional(T)) : T \in PositionalTypes}
    \cup {SList(Append(Positional(T), SFloat(1))) : T \in PositionalTypes}
    \cup {AtNoAngle, AtSymbolAngle}

CursorTypes == {"SExprSymbol", "SExprList", "String", "f64"} \cup PositionalTypes

InitCur ==
  /\ inp = [kind |-> "cursor", list |-> <<>>, before |-> <<>>, amount |-> 0, T |-> "none"]
  /\ text = <<>>
  /\ call = "none"
  /\ pc = "build"
  /\ out = [kind |-> "none"]
  /\ now = 1

\* SExprList(vec![..]): one more child at the back
PushChild(n) ==
  /\ pc = "build"
  /\ Len(inp.list) < MaxCursor
  /\ inp' = [inp EXCEPT !.list = Append(@, n), !.before = Append(@, n)]
  /\ UNCHANGED <<text, call, pc, out, now>>

\* one operation on the cursor: its result and the cursor it leaves
Step(name, amount, T, result, rest) ==
  /\ pc \in {"build", "step"}
  /\ pc' = "step"
  /\ call' = name
  /\ out' = result
  /\ inp' = [inp EXCEPT !.before = inp.list, !.list = rest, !.amount = amount, !.T = T]
  /\ UNCHANGED <<text, now>>

\* list.discard(amount): on Ok the children left, on Err the list as it was
StepDiscard(amount) ==
  With(discard(inp.list, amount), LAMBDA r :
    Step("discard", amount, "none", r, IF r.kind = "ok" THEN r.rest ELSE inp.list))

\* list.next_into::<T>(): next_any has removed the child before the conversion runs
StepNextInto(T) ==
  Step("next_into", 0, T, next_into(inp.list, T), next_maybe(inp.list).rest)

\* list.next_maybe_into::<T>()
StepNextMaybeInto(T) ==
  Step("next_maybe_into", 0, T, next_maybe_into(inp.list, T), next_maybe(inp.list).rest)

\* list.peek_name(), &self
StepPeekName == Step("peek_name", 0, "none", peek_name(inp.list), inp.list)

\* list.expect_end(), &self
StepExpectEnd == Step("expect_end", 0, "none", expect_end(inp.list), inp.list)

NextCur ==
  \/ \E n \in CursorChildren : PushChild(n)
  \/ \E amount \in 0..(MaxCursor + 1) : StepDiscard(amount)
  \/ \E T \in CursorTypes : StepNextInto(T)
  \/ \E T \in CursorTypes : StepNextMaybeInto(T)
  \/ StepPeekName
  \/ StepExpectEnd

SpecCur == InitCur /\ [][NextCur]_vars

Stepped(name) == inp.kind = "cursor" /\ pc = "step" /\ call = name

\* C13: discard(n) on a cursor of at least n children removes the first n
\* and keeps the others in their order; when n exceeds the number of
\* children it returns an unexpected-end error and removes nothing
C13_Discard ==
  Stepped("discard") =>
    IF inp.amount <= Len(inp.before)
      THEN /\ out.kind = "ok"
           /\ Len(inp.list) = Len(inp.before) - inp.amount
           /\ \A n \in 1..Len(inp.list) : inp.list[n] = inp.before[n + inp.amount]
    ELSE /\ out.kind = "err"
         /\ out.err.ekind = "UnexpectedEnd"
         /\ inp.list = inp.before

C13_Witness ==
  /\ Stepped("discard")
  /\ inp.amount = 1
  /\ Len(inp.before) = 2
  /\ inp.before[1] /= inp.before[2]
  /\ inp.list = <<inp.before[2]>>
  /\ out.kind = "ok"

\* the variant impl_from_into! and TryFrom<SExpr> for String match on
ShapeTypes == {"SExprSymbol", "SExprList", "String"}

ShapeOf(T) ==
  CASE T = "SExprSymbol" -> "Symbol" [] T = "SExprList" -> "List" [] T = "String" -> "Value"

ShapeName(T) ==
  CASE T = "SExprSymbol" -> Text("SExpr::Symbol")
    [] T = "SExprList" -> Text("SExpr::List")
    [] T = "String" -> Text("SExpr::Value")

Payload(node) == IF node.k = "List" THEN node.items ELSE node.s

\* the conversion error of a child of the wrong shape
WrongShape(r, expected, node) ==
  /\ r.kind = "err"
  /\ r.err.ekind = "UnexpectedSExpr"
  /\ r.err.expected = expected
  /\ r.err.found = Node(node)

\* C14: next_into<T> on a non-empty cursor removes the front child and
\* returns it converted to T; a child of the wrong shape gives a conversion
\* error carrying the expected shape and the actual node; on an empty cursor
\* the error is an unexpected end
C14_NextInto ==
  Stepped("next_into") =>
    IF inp.before = <<>>
      THEN out.kind = "err" /\ out.err.ekind = "UnexpectedEnd" /\ inp.list = <<>>
    ELSE /\ inp.list = Tail(inp.before)
         /\ out.kind = "ok" => out.rest = Tail(inp.before)
         /\ inp.T \in ShapeTypes =>
              IF Head(inp.before).k = ShapeOf(inp.T)
                THEN out = COk(Payload(Head(inp.before)), Tail(inp.before))
              ELSE WrongShape(out, ShapeName(inp.T), Head(inp.before))
         /\ inp.T = "f64" =>
              IF Head(inp.before).k = "Float"
                THEN out = COk(Head(inp.before).v, Tail(inp.before))
              ELSE WrongShape(out, Text("Value or Hex"), Head(inp.before))
         /\ (inp.T \in PositionalTypes /\ Head(inp.before) = SList(Positional(inp.T))) =>
              out.kind = "ok"

C14_Witness ==
  /\ Stepped("next_into")
  /\ inp.T = "SExprSymbol"
  /\ inp.before = <<SValue(<<"1">>), SSymbol(Kw.yes)>>
  /\ inp.list = <<SSymbol(Kw.yes)>>
  /\ WrongShape(out, Text("SExpr::Symbol"), SValue(<<"1">>))

\* C15: next_maybe_into<T> returns an absent value without error exactly
\* when the cursor is empty; on a non-empty cursor it removes and converts
\* the front child as next_into<T> does, so a front child of the wrong shape
\* is an error, and (at 1 2 yes) is no Position
C15_NextMaybeInto ==
  /\ Stepped("next_maybe_into") =>
       /\ (out.kind = "ok" /\ ~out.val.some) <=> inp.before = <<>>
       /\ inp.list = next_maybe(inp.before).rest
       /\ inp.before /= <<>> =>
            With(next_into(inp.before, inp.T), LAMBDA r :
              IF r.kind = "ok" THEN out = COk(Some(r.val), r.rest) ELSE out = r)
       /\ (inp.before /= <<>> /\ inp.T \in ShapeTypes /\ Head(inp.before).k /= ShapeOf(inp.T)) =>
            WrongShape(out, ShapeName(inp.T), Head(inp.before))
  /\ (Stepped("next_into") /\ inp.T = "Position" /\ inp.before /= <<>>) =>
       /\ Head(inp.before) = AtSymbolAngle =>
            WrongShape(out, Text("Value or Hex"), SSymbol(Kw.yes))
       /\ Head(inp.before) = AtNoAngle =>
            out.kind = "ok" /\ out.val = [x |-> 1, y |-> 2, angle |-> None]

\* the step Position::try_from takes on the third element of (at 1 2 yes)
C15_Witness ==
  /\ Stepped("next_maybe_into")
  /\ inp.T = "f64"
  /\ inp.before = <<SSymbol(Kw.yes)>>
  /\ inp.list = <<>>
  /\ WrongShape(out, Text("Value or Hex"), SSymbol(Kw.yes))

\* C16: peek_name returns the symbol text of the first child and leaves the
\* cursor as it was, so the next pop returns that symbol; on an empty cursor
\* or a first child that is no symbol it returns an error and the cursor is
\* unchanged as well
C16_PeekName ==
  Stepped("peek_name") =>
    /\ inp.list = inp.before
    /\ IF inp.before /= <<>> /\ Head(inp.before).k = "Symbol"
         THEN /\ out = ROk(Head(inp.before).s)
              /\ next_symbol(inp.list) = COk(out.val, Tail(inp.before))
       ELSE out.kind = "err"

C16_Witness ==
  /\ Stepped("peek_name")
  /\ inp.list = <<SSymbol(Kw.at), SFloat(1)>>
  /\ out = ROk(Kw.at)

\* C17: expect_end succeeds exactly when no child is left; otherwise its
\* error is a leftover error holding every child not consumed, so each
\* positional record (at, xy, color, uuid, layer) followed by one more
\* element is rejected
C17_ExpectEnd ==
  /\ Stepped("expect_end") =>
       /\ out.kind = "ok" <=> inp.before = <<>>
       /\ inp.before /= <<>> =>
            out.err.ekind = "Leftover" /\ out.err.found = Nodes(inp.before)
       /\ inp.list = inp.before
  /\ (/\ Stepped("next_into") /\ inp.T \in PositionalTypes /\ inp.before /= <<>>
      /\ Head(inp.before) = SList(Append(Positional(inp.T), SFloat(1)))) =>
         /\ out.kind = "err"
         /\ out.err.ekind = "Leftover"
         /\ out.err.found = Nodes(<<SFloat(1)>>)

C17_Witness ==
  /\ Stepped("next_into")
  /\ inp.T = "Uuid"
  /\ inp.before = <<SList(Append(Positional("Uuid"), SFloat(1)))>>
  /\ out.kind = "err"
  /\ out.err.ekind = "Leftover"

(***************************************************************************)
(* Entities: a graphic or pad list built child by child, then converted    *)
(***************************************************************************)
MaxAttrs == 2

s_gr == <<"g", "r">>
s_fp == <<"f", "p">>
s_none == <<"n", "o", "n", "e">>

EntityKinds == {"Text", "Line", "Rectangle", "Circle", "Arc", "Polygon", "Curve"}

EntityTags ==
  {s_gr \o GraphicSuffix(kind) : kind \in EntityKinds}
    \cup {FootprintTag(kind) : kind \in EntityKinds}
    \cup {PadKw.pad}

FillNode(v) == SList(<<SSymbol(Kw.fill), v>>)
PadSize == SList(<<SSymbol(PadKw.size), SFloat(1), SFloat(2)>>)
PadLayers == SList(<<SSymbol(PadKw.layers), SList(<<SSymbol(Kw.layer), SValue(<<"B", ".", "C", "u">>)>>)>>)
PadLayerNames == SList(<<SSymbol(PadKw.layers), SValue(<<"B", ".", "C", "u">>)>>)
PadAt == SList(<<SSymbol(Kw.at), SFloat(1), SFloat(2)>>)
PadNet == SList(<<SSymbol(Kw.net), SFloat(1), SValue(<<"a">>)>>)

EntityChildren ==
  { SSymbol(Kw.locked), SSymbol(Kw.unlocked), SSymbol(Kw.hide),
    FillNode(SSymbol(Kw.yes)), FillNode(SSymbol(s_none)), FillNode(SFloat(1)),
    SValue(<<"1">>), SSymbol(PadKw.smd), SSymbol(PadKw.circle),
    PadSize, PadLayers, PadLayerNames, PadAt, PadNet }

EntityTypes == {"Graphic", "FootprintGraphic", "Pad"}

InitEnt ==
  /\ inp \in [kind : {"entity"}, tag : EntityTags, children : {<<>>}, T : {"none"}]
  /\ text = <<>>
  /\ call = "none"
  /\ pc = "build"
  /\ out = [kind |-> "none"]
  /\ now = 1

AddChild(n) ==
  /\ pc = "build"
  /\ Len(inp.children) < MaxAttrs
  /\ inp' = [inp EXCEPT !.children = Append(@, n)]
  /\ UNCHANGED <<text, call, pc, out, now>>

EntityTree == SList(<<SSymbol(inp.tag)>> \o inp.children)

\* T::try_from(SExpr::List(..))
Convert(T) ==
  /\ pc = "build"
  /\ pc' = "done"
  /\ call' = "try_from"
  /\ inp' = [inp EXCEPT !.T = T]
  /\ out' = TryFrom(T, EntityTree)
  /\ UNCHANGED <<text, now>>

NextEnt ==
  \/ \E n \in EntityChildren : AddChild(n)
  \/ \E T \in EntityTypes : Convert(T)

SpecEnt == InitEnt /\ [][NextEnt]_vars

\* the list was converted by the conversion its tag belongs to
ConvertedAs(kinds) ==
  /\ inp.kind = "entity" /\ pc = "done"
  /\ \E kind \in kinds :
       \/ inp.T = "Graphic" /\ inp.tag = s_gr \o GraphicSuffix(kind)
       \/ inp.T = "FootprintGraphic" /\ inp.tag = FootprintTag(kind)

ConvertedPad == inp.kind = "entity" /\ pc = "done" /\ inp.T = "Pad" /\ inp.tag = PadKw.pad

Has(n) == \E i \in DOMAIN inp.children : inp.children[i] = n

\* the children of the entity that are `fill` lists
FillLists == SelectSeq(inp.children, LAMBDA n : n.k = "List" /\ n.items[1] = SSymbol(Kw.fill))

\* C18: a rectangle, circle or polygon with a `fill` list converts, and its
\* fill field says whether the value of the (last) fill list is the symbol yes
C18_FillYes ==
  (ConvertedAs({"Rectangle", "Circle", "Polygon"}) /\ FillLists /= <<>>) =>
    /\ out.kind = "ok"
    /\ out.val.value.fill = (FillLists[Len(FillLists)].items[2] = SSymbol(Kw.yes))

\* C19: a line, rectangle, circle, arc, polygon, curve or pad holding the
\* symbol locked converts to an entity whose locked field is true; a text
\* holding the symbol unlocked has unlocked true, and hide only with hide
C19_Flags ==
  /\ (ConvertedAs(EntityKinds \ {"Text"}) /\ Has(SSymbol(Kw.locked)) /\ out.kind = "ok") =>
       out.val.value.locked
  /\ (ConvertedPad /\ Has(SSymbol(Kw.locked)) /\ out.kind = "ok") => out.val.locked
  /\ (ConvertedAs({"Text"}) /\ Has(SSymbol(Kw.unlocked)) /\ out.kind = "ok") =>
       /\ out.val.value.unlocked
       /\ out.val.value.hide <=> Has(SSymbol(Kw.hide))

\* the quoted values among the children of the entity
QuotedChildren == SelectSeq(inp.children, LAMBDA n : n.k = "Value")

\* C20: a pad list converts to a pad whose number is its quoted value, whose
\* pad_type and shape are those of its keywords, and whose size, layers,
\* position and net are those of its size, layers, at and net lists
C20_PadFields ==
  ConvertedPad =>
    /\ out.kind = "ok"
    /\ QuotedChildren /= <<>> => out.val.number = QuotedChildren[Len(QuotedChildren)].s
    /\ Has(SSymbol(PadKw.smd)) => out.val.pad_type = "Smd"
    /\ Has(SSymbol(PadKw.circle)) => out.val.shape = "Circle"
    /\ Has(PadSize) => out.val.size = <<1, 2>>
    /\ (Has(PadLayers) \/ Has(PadLayerNames)) => "BCu" \in Range(out.val.layers)
    /\ Has(PadAt) => out.val.position = [x |-> 1, y |-> 2, angle |-> None]
    /\ Has(PadNet) => out.val.net = Some(<<1, <<"a">>>>)

(***************************************************************************)
(* Layers: (layer "<name>") converted, and the layer displayed             *)
(***************************************************************************)
InnerCopperLayers == 30
UserDefinableLayers == 9

Cat(a, b) == a \o b

\* the layer names of KiCad: copper, technical, user, special, user-definable
CanonicalLayerNames ==
  {<<"F", ".", "C", "u">>, <<"B", ".", "C", "u">>}
    \cup {Cat(<<"I", "n">>, Cat(ToDecimal(n), <<".", "C", "u">>)) : n \in 1..InnerCopperLayers}
    \cup {Cat(side, Cat(<<".">>, t)) :
            side \in {<<"F">>, <<"B">>},
            t \in {<<"A", "d", "h", "e", "s">>, <<"P", "a", "s", "t", "e">>,
                   <<"S", "i", "l", "k", "S">>, <<"M", "a", "s", "k">>,
                   <<"C", "r", "t", "Y", "d">>, <<"F", "a", "b">>}}
    \cup {Cat(u, <<".", "U", "s", "e", "r">>) :
            u \in {<<"D", "w", "g", "s">>, <<"C", "m", "t", "s">>,
                   <<"E", "c", "o", "1">>, <<"E", "c", "o", "2">>}}
    \cup {<<"E", "d", "g", "e", ".", "C", "u", "t", "s">>}
    \cup {Cat(<<"U", "s", "e", "r", ".">>, ToDecimal(n)) : n \in 1..UserDefinableLayers}

OtherLayerNames ==
  { <<>>, <<"F", "C", "u">>, <<"F", ".", "c", "u">>, <<"f", ".", "C", "u">>,
    <<"F", ".", "C", "u", ".">>, <<"I", "n", "0", ".", "C", "u">>,
    <<"I", "n", "3", "1", ".", "C", "u">>, <<"I", "n", "0", "1", ".", "C", "u">>,
    <<"U", "s", "e", "r", ".", "0">>, <<"U", "s", "e", "r", ".", "1", "0">>,
    <<"M", "a", "r", "g", "i", "n">>, <<"E", "d", "g", "e", "_", "C", "u", "t", "s">>,
    <<"F", ".", "S", "i", "l", "k", "s", "c", "r", "e", "e", "n">> }

InitLayer ==
  /\ inp \in [kind : {"layer"}, name : CanonicalLayerNames \cup OtherLayerNames]
  /\ text = Unparse(SList(<<SSymbol(Kw.layer), SValue(inp.name)>>))
  /\ call = "none"
  /\ pc = "ready"
  /\ out = [kind |-> "none"]
  /\ now = 1

\* parse_sexpr(text)?.as_sexpr_into::<Layer>()
CallLayer ==
  /\ inp.kind = "layer"
  /\ Call("Layer::try_from", parse_into("Layer", text))

\* layer.to_string()
DisplayLayer ==
  /\ pc = "done"
  /\ call = "Layer::try_from"
  /\ out.kind = "ok"
  /\ pc' = "shown"
  /\ call' = "Layer::fmt"
  /\ out' = [kind |-> "ok", val |-> out.val, shown |-> LayerDisplay(out.val)]
  /\ UNCHANGED <<inp, text, now>>

NextLayer == CallLayer \/ DisplayLayer

SpecLayer == InitLayer /\ [][NextLayer]_vars

\* C21: (layer "<name>") converts exactly when the name is a canonical layer
\* name and fails with a validation error for every other name; the display
\* form of the layer a canonical name converts to is that name
C21_LayerNames ==
  /\ (inp.kind = "layer" /\ call = "Layer::try_from") =>
       IF inp.name \in CanonicalLayerNames THEN out.kind = "ok"
       ELSE /\ out.kind = "err"
            /\ out.err.ekind = "Unexpected"
            /\ out.err.expected = Text("Valid layer")
  /\ (inp.kind = "layer" /\ call = "Layer::fmt") =>
       inp.name \in CanonicalLayerNames /\ out.shown = inp.name

C21_Witness ==
  /\ inp.kind = "layer"
  /\ call = "Layer::fmt"
  /\ inp.name = <<"I", "n", "3", "0", ".", "C", "u">>
  /\ out.val = "In30Cu"
  /\ out.shown = <<"I", "n", "3", "0", ".", "C", "u">>

(***************************************************************************)
(* Geometry: BoundingBox (common/positionals.rs) and GetBoundingBox        *)
(* (common/graphic.rs, pcb_file/mod.rs).  The f64 values of a box are held *)
(* in units of 1/BoxUnit mm, so that the `height / 2.0` of a text is       *)
(* exact; the four extreme values of f64 the code names are integers       *)
(* outside the range of every coordinate, in the order f64 gives them.     *)
(***************************************************************************)
BoxUnit == 2
F64_MAX == 1000000
F64_INFINITY == 1000001
F64_MIN == -1000000
F64_NEG_INFINITY == -1000001

\* a coordinate of a graphic as a value of a box
Mm(v) == v * BoxUnit

\* f64::min, f64::max
F64_min(a, b) == IF a <= b THEN a ELSE b
F64_max(a, b) == IF a >= b THEN a ELSE b

\* a + b for the small b of the model: f64::MAX + b rounds to f64::MAX,
\* and so for f64::MIN; an infinity stays itself
F64_add(a, b) == IF a >= F64_MAX \/ a <= F64_MIN THEN a ELSE a + b

BoundingBox(min_x, min_y, max_x, max_y) ==
  [min_x |-> min_x, min_y |-> min_y, max_x |-> max_x, max_y |-> max_y]

BoundingBox_default == BoundingBox(F64_MAX, F64_MAX, F64_MIN, F64_MIN)

\* an envelop that assigns the other box instead of taking minima and maxima
envelop_mut(self, other) == other

\* an envelop whose min_y takes the larger of the two values
envelop_min_y_mut(self, other) ==
  BoundingBox(F64_min(self.min_x, other.min_x), F64_max(self.min_y, other.min_y),
              F64_max(self.max_x, other.max_x), F64_max(self.max_y, other.max_y))

envelop(self, other) ==
  BoundingBox(F64_min(self.min_x, other.min_x), F64_min(self.min_y, other.min_y),
              F64_max(self.max_x, other.max_x), F64_max(self.max_y, other.max_y))

move_by(self, dx, dy) ==
  BoundingBox(F64_add(self.min_x, dx), F64_add(self.min_y, dy),
              F64_add(self.max_x, dx), F64_add(self.max_y, dy))

\* f64::sqrt on the perfect squares the model draws its circles from
Sqrt(n) == CHOOSE r \in 0..n : r * r = n

\* width 10.0 and height 5.0 are the placeholders of the code
FootprintText_bounding_box(text_) ==
  BoundingBox(Mm(text_.position.x), Mm(text_.position.y) - Mm(5) \div 2,
              Mm(text_.position.x) + Mm(10), Mm(text_.position.y) + Mm(5) \div 2)

FootprintTextBox_bounding_box(textbox) ==
  With(IF textbox.start.some THEN textbox.start.v ELSE PointDefault, LAMBDA min :
  With(IF textbox.end.some THEN textbox.end.v ELSE min, LAMBDA max :
  BoundingBox(Mm(min.x), Mm(min.y), Mm(max.x), Mm(max.y))))

FootprintLine_bounding_box(line) ==
  BoundingBox(Mm(line.start.x), Mm(line.start.y), Mm(line.end.x), Mm(line.end.y))

FootprintRectangle_bounding_box(rect) ==
  BoundingBox(Mm(rect.start.x), Mm(rect.start.y), Mm(rect.end.x), Mm(rect.end.y))

\* a radius measured along the x axis only
Radius_mut(circle) ==
  Mm(IF circle.end.x >= circle.center.x THEN circle.end.x - circle.center.x
     ELSE circle.center.x - circle.end.x)

\* ((end.x - center.x).powi(2) + (end.y - center.y).powi(2)).sqrt()
Radius(circle) ==
  Mm(Sqrt((circle.end.x - circle.center.x) * (circle.end.x - circle.center.x)
          + (circle.end.y - circle.center.y) * (circle.end.y - circle.center.y)))

FootprintCircle_bounding_box(circle) ==
  With(Radius(circle), LAMBDA radius :
  BoundingBox(Mm(circle.center.x) - radius, Mm(circle.center.y) - radius,
              Mm(circle.center.x) + radius, Mm(circle.center.y) + radius))

FootprintArc_bounding_box(arc) ==
  BoundingBox(Mm(F64_min(F64_min(arc.start.x, arc.end.x), arc.mid.x)),
              Mm(F64_min(F64_min(arc.start.y, arc.end.y), arc.mid.y)),
              Mm(F64_max(F64_max(arc.start.x, arc.end.x), arc.mid.x)),
              Mm(F64_max(F64_max(arc.start.y, arc.end.y), arc.mid.y)))

RECURSIVE Points_bounding_box_mut(_, _)
\* the loop leaving out the last point of the list
Points_bounding_box_mut(points, box) ==
  IF Len(points) <= 1 THEN box
  ELSE Points_bounding_box_mut(Tail(points),
         BoundingBox(F64_min(box.min_x, Mm(Head(points).x)),
                     F64_min(box.min_y, Mm(Head(points).y)),
                     F64_max(box.max_x, Mm(Head(points).x)),
                     F64_max(box.max_y, Mm(Head(points).y))))

RECURSIVE Points_bounding_box(_, _)
\* for point in &self.points.0 { min_x = min_x.min(point.x); .. }
Points_bounding_box(points, box) ==
  IF points = <<>> THEN box
  ELSE Points_bounding_box(Tail(points),
         BoundingBox(F64_min(box.min_x, Mm(Head(points).x)),
                     F64_min(box.min_y, Mm(Head(points).y)),
                     F64_max(box.max_x, Mm(Head(points).x)),
                     F64_max(box.max_y, Mm(Head(points).y))))

\* FootprintPolygon::bounding_box and FootprintCurve::bounding_box
FootprintPolygon_bounding_box(poly) ==
  Points_bounding_box(poly.points,
    BoundingBox(F64_INFINITY, F64_INFINITY, F64_NEG_INFINITY, F64_NEG_INFINITY))

\* Graphic::layer
Graphic_layer(graphic) == graphic.value.layer

\* Graphic::bounding_box
Graphic_bounding_box(graphic) ==
  CASE graphic.variant = "Text" -> FootprintText_bounding_box(graphic.value)
    [] graphic.variant = "TextBox" -> FootprintTextBox_bounding_box(graphic.value)
    [] graphic.variant = "Line" -> FootprintLine_bounding_box(graphic.value)
    [] graphic.variant = "Rectangle" -> FootprintRectangle_bounding_box(graphic.value)
    [] graphic.variant = "Circle" -> FootprintCircle_bounding_box(graphic.value)
    [] graphic.variant = "Arc" -> FootprintArc_bounding_box(graphic.value)
    [] graphic.variant = "Polygon" -> FootprintPolygon_bounding_box(graphic.value)
    [] graphic.variant = "Curve" -> FootprintPolygon_bounding_box(graphic.value)

\* `graphics.layer() != "Edge.Cuts"`: a layer compared with its name
Layer_eq_str(layer, name) == LayerDisplay(layer) = name

s_Edge_Cuts == <<"E", "d", "g", "e", ".", "C", "u", "t", "s">>
s_F_Fab == <<"F", ".", "F", "a", "b">>

RECURSIVE PcbFile_envelop_mut(_, _)
\* the loop of PcbFile::bounding_box without the test of the layer
PcbFile_envelop_mut(graphics, bounding) ==
  IF graphics = <<>> THEN bounding
  ELSE PcbFile_envelop_mut(Tail(graphics),
                           envelop(bounding, Graphic_bounding_box(Head(graphics))))

RECURSIVE PcbFile_envelop(_, _)
\* for graphics in &self.graphics { if layer != "Edge.Cuts" { continue } bounding.envelop(..) }
PcbFile_envelop(graphics, bounding) ==
  IF graphics = <<>> THEN bounding
  ELSE IF ~Layer_eq_str(Graphic_layer(Head(graphics)), s_Edge_Cuts)
    THEN PcbFile_envelop(Tail(graphics), bounding)
  ELSE PcbFile_envelop(Tail(graphics), envelop(bounding, Graphic_bounding_box(Head(graphics))))

PcbFile_bounding_box(pcb_file) == PcbFile_envelop(pcb_file.graphics, BoundingBox_default)

RECURSIVE Footprint_envelop(_, _)
Footprint_envelop(graphics, bounding) ==
  IF graphics = <<>> THEN bounding
  ELSE IF Layer_eq_str(Graphic_layer(Head(graphics)), s_F_Fab)
    THEN Footprint_envelop(Tail(graphics), bounding)
  ELSE Footprint_envelop(Tail(graphics), envelop(bounding, Graphic_bounding_box(Head(graphics))))

\* a footprint box that is not moved to the position of the footprint
Footprint_bounding_box_mut(footprint) ==
  Footprint_envelop(footprint.graphics, BoundingBox_default)

\* Footprint::bounding_box: the graphics off F.Fab enveloped, then moved by
\* the position of the footprint
Footprint_bounding_box(footprint) ==
  With(Footprint_envelop(footprint.graphics, BoundingBox_default), LAMBDA bounding :
    IF footprint.position.some
      THEN move_by(bounding, Mm(footprint.position.v.x), Mm(footprint.position.v.y))
    ELSE bounding)

(***************************************************************************)
(* The box of one graphic                                                  *)
(***************************************************************************)
MaxCoord == 3
MaxPoints == 3

Coords == (0 - MaxCoord)..MaxCoord
GeoPoints == [x : Coords, y : Coords]
PolyPoints == {[x |-> -1, y |-> 2], [x |-> 0, y |-> 0], [x |-> 3, y |-> -3], [x |-> 2, y |-> 2]}

SquaredDistance(p, q) == (q.x - p.x) * (q.x - p.x) + (q.y - p.y) * (q.y - p.y)

\* the pairs of points an integer distance apart
Rational(p, q) == \E r \in 0..(4 * MaxCoord) : r * r = SquaredDistance(p, q)

GraphicOf(kind, fields) ==
  [variant |-> kind,
   value |-> [f \in DOMAIN GraphicDefault(kind) |->
                IF f \in DOMAIN fields THEN fields[f] ELSE GraphicDefault(kind)[f]]]

GeoGraphics ==
  {GraphicOf(kind, [start |-> p, end |-> q]) :
     kind \in {"Line", "Rectangle"}, p \in GeoPoints, q \in GeoPoints}
    \cup {GraphicOf("Circle", [center |-> pq[1], end |-> pq[2]]) :
            pq \in {pq \in GeoPoints \X GeoPoints : Rational(pq[1], pq[2])}}
    \cup {GraphicOf(kind, [points |-> pts]) :
            kind \in {"Polygon", "Curve"},
            pts \in UNION {[1..n -> PolyPoints] : n \in 0..MaxPoints}}

InitGeo ==
  /\ now = 1
  /\ inp \in [kind : {"geo"}, graphic : GeoGraphics]
  /\ text = <<>>
  /\ call = "none"
  /\ pc = "ready"
  /\ out = [kind |-> "none"]

\* graphic.bounding_box()
CallBoundingBox ==
  /\ inp.kind = "geo"
  /\ Call("Graphic::bounding_box", Graphic_bounding_box(inp.graphic))

NextGeo == CallBoundingBox

SpecGeo == InitGeo /\ [][NextGeo]_vars

BoxOf(kinds) ==
  inp.kind = "geo" /\ call = "Graphic::bounding_box" /\ inp.graphic.variant \in kinds

\* C22: the box of a circle is (c.x - r, c.y - r, c.x + r, c.y + r) with r
\* the distance from the center c to the end point; center (0,0) and end
\* (3,0) give min (-3,-3) and max (3,3)
C22_CircleBox ==
  BoxOf({"Circle"}) =>
    /\ \E r \in 0..Mm(4 * MaxCoord) :
         /\ r * r = SquaredDistance([x |-> Mm(inp.graphic.value.center.x),
                                     y |-> Mm(inp.graphic.value.center.y)],
                                    [x |-> Mm(inp.graphic.value.end.x),
                                     y |-> Mm(inp.graphic.value.end.y)])
         /\ out = BoundingBox(Mm(inp.graphic.value.center.x) - r,
                              Mm(inp.graphic.value.center.y) - r,
                              Mm(inp.graphic.value.center.x) + r,
                              Mm(inp.graphic.value.center.y) + r)
    /\ (inp.graphic.value.center = [x |-> 0, y |-> 0]
        /\ inp.graphic.value.end = [x |-> 3, y |-> 0]) =>
         out = BoundingBox(Mm(-3), Mm(-3), Mm(3), Mm(3))

C22_Witness ==
  /\ BoxOf({"Circle"})
  /\ inp.graphic.value.center = [x |-> -1, y |-> -2]
  /\ inp.graphic.value.end = [x |-> 2, y |-> 2]
  /\ out = BoundingBox(Mm(-6), Mm(-7), Mm(4), Mm(3))

\* C23: the box of a line or rectangle has on each axis the smaller of the
\* start and end coordinates as min and the larger as max, so that
\* min_x <= max_x and min_y <= max_y whatever the order of the two points
C23_LineBox ==
  BoxOf({"Line", "Rectangle"}) =>
    /\ out.min_x = Mm(F64_min(inp.graphic.value.start.x, inp.graphic.value.end.x))
    /\ out.min_y = Mm(F64_min(inp.graphic.value.start.y, inp.graphic.value.end.y))
    /\ out.max_x = Mm(F64_max(inp.graphic.value.start.x, inp.graphic.value.end.x))
    /\ out.max_y = Mm(F64_max(inp.graphic.value.start.y, inp.graphic.value.end.y))
    /\ out.min_x <= out.max_x
    /\ out.min_y <= out.max_y

MaxGraphics == 2

AggLayers == {"EdgeCuts", "FFab", "FCu"}

AggShapes ==
  { GraphicOf("Line", [start |-> [x |-> 0, y |-> 0], end |-> [x |-> 2, y |-> 1]]),
    GraphicOf("Circle", [center |-> [x |-> 1, y |-> 1], end |-> [x |-> 1, y |-> 3]]),
    GraphicOf("Polygon", [points |-> <<[x |-> -1, y |-> 2], [x |-> 3, y |-> -3]>>]),
    GraphicOf("Polygon", [points |-> <<>>]),
    GraphicOf("Text", [position |-> [x |-> 1, y |-> 1, angle |-> None]]) }

OnLayer(graphic, layer) == [graphic EXCEPT !.value.layer = layer]

AggGraphics == {OnLayer(g, layer) : g \in AggShapes, layer \in AggLayers}

InitAgg ==
  /\ now = 1
  /\ inp \in [kind : {"agg"}, graphics : {<<>>},
              position : {None, Some([x |-> 5, y |-> 6, angle |-> None])}]
  /\ text = <<>>
  /\ call = "none"
  /\ pc = "ready"
  /\ out = [kind |-> "none"]

\* graphics.push(graphic)
AddGraphic(g) ==
  /\ pc = "ready"
  /\ inp.kind = "agg"
  /\ Len(inp.graphics) < MaxGraphics
  /\ inp' = [inp EXCEPT !.graphics = Append(@, g)]
  /\ UNCHANGED <<text, call, pc, out, now>>

\* pcb.bounding_box()
CallBoardBox ==
  /\ inp.kind = "agg"
  /\ Call("PcbFile::bounding_box",
          PcbFile_bounding_box([PcbFileDefault EXCEPT !.graphics = inp.graphics]))

\* footprint.bounding_box()
CallFootprintBox ==
  /\ inp.kind = "agg"
  /\ Call("Footprint::bounding_box",
          Footprint_bounding_box([FootprintDefault EXCEPT !.graphics = inp.graphics,
                                                          !.position = inp.position]))

NextAgg ==
  \/ \E g \in AggGraphics : AddGraphic(g)
  \/ CallBoardBox
  \/ CallFootprintBox

SpecAgg == InitAgg /\ [][NextAgg]_vars

RECURSIVE EnvelopAll(_, _)
\* the boxes of the graphics enveloped one after another into a box
EnvelopAll(graphics, box) ==
  IF graphics = <<>> THEN box
  ELSE EnvelopAll(Tail(graphics), envelop(box, Graphic_bounding_box(Head(graphics))))

EdgeCutsGraphics == SelectSeq(inp.graphics, LAMBDA g : g.value.layer = "EdgeCuts")
OffFabGraphics == SelectSeq(inp.graphics, LAMBDA g : g.value.layer /= "FFab")

\* C25: the box of the board is the empty box enveloped with the boxes of
\* exactly the graphics on Edge.Cuts; graphics on other layers change
\* nothing, and a board without Edge.Cuts graphic has the empty box
C25_BoardBox ==
  (inp.kind = "agg" /\ call = "PcbFile::bounding_box") =>
    /\ out = EnvelopAll(EdgeCutsGraphics, BoundingBox_default)
    /\ EdgeCutsGraphics = <<>> => out = BoundingBox_default

C25_Witness ==
  /\ inp.kind = "agg"
  /\ call = "PcbFile::bounding_box"
  /\ Len(inp.graphics) = 2
  /\ inp.graphics[1].variant = "Polygon" /\ inp.graphics[1].value.layer = "FCu"
  /\ inp.graphics[1].value.points /= <<>>
  /\ inp.graphics[2].variant = "Line" /\ inp.graphics[2].value.layer = "EdgeCuts"
  /\ out = BoundingBox(Mm(0), Mm(0), Mm(2), Mm(1))

\* C26: the box of a footprint envelops the boxes of its graphics off F.Fab
\* and is then moved by the position of the footprint; a footprint whose
\* only graphic is on F.Fab has the empty box
C26_FootprintBox ==
  (inp.kind = "agg" /\ call = "Footprint::bounding_box") =>
    /\ inp.position.some =>
         out = move_by(EnvelopAll(OffFabGraphics, BoundingBox_default),
                       Mm(inp.position.v.x), Mm(inp.position.v.y))
    /\ (OffFabGraphics = <<>> /\ inp.graphics /= <<>>) => out = BoundingBox_default
    /\ (inp.position.some /\ Len(inp.graphics) = 1 /\ inp.graphics[1].variant = "Line"
        /\ inp.graphics[1].value.layer /= "FFab") =>
         out = BoundingBox(Mm(5), Mm(6), Mm(7), Mm(7))

C26_Witness ==
  /\ inp.kind = "agg"
  /\ call = "Footprint::bounding_box"
  /\ inp.position.some
  /\ Len(inp.graphics) = 2
  /\ inp.graphics[1].variant = "Circle" /\ inp.graphics[1].value.layer = "FFab"
  /\ inp.graphics[2].variant = "Line" /\ inp.graphics[2].value.layer = "FCu"
  /\ out = BoundingBox(Mm(5), Mm(6), Mm(7), Mm(7))

(***************************************************************************)
(* Sequences of envelop calls on one box                                   *)
(***************************************************************************)
MaxEnvelops == 2

\* the boxes the graphics of the model produce
GraphicBoxes == {Graphic_bounding_box(g) : g \in AggShapes}

\* the boxes a sequence of envelop calls starts from and takes
Boxes == GraphicBoxes \cup {BoundingBox_default, BoundingBox(Mm(-2), Mm(4), Mm(0), Mm(5))}

RECURSIVE EnvelopBoxes(_, _)
\* for other in boxes { box.envelop(other) }
EnvelopBoxes(boxes, box) ==
  IF boxes = <<>> THEN box ELSE EnvelopBoxes(Tail(boxes), envelop(box, Head(boxes)))

Reversed(s) == [i \in 1..Len(s) |-> s[Len(s) + 1 - i]]

InitBox ==
  /\ now = 1
  /\ inp \in [kind : {"box"}, start : Boxes, boxes : {<<>>}]
  /\ text = <<>>
  /\ call = "none"
  /\ pc = "ready"
  /\ out = [kind |-> "box", val |-> inp.start, before |-> inp.start, reversed |-> inp.start]

\* bounding.envelop(&other) on the accumulator; beside it the same boxes are
\* enveloped into the same starting box in the opposite order
Envelop(other) ==
  /\ inp.kind = "box"
  /\ Len(inp.boxes) < MaxEnvelops
  /\ inp' = [inp EXCEPT !.boxes = Append(@, other)]
  /\ call' = "BoundingBox::envelop"
  /\ out' = [kind |-> "box",
             val |-> envelop(out.val, other),
             before |-> out.val,
             reversed |-> EnvelopBoxes(Reversed(Append(inp.boxes, other)), inp.start)]
  /\ UNCHANGED <<text, pc, now>>

NextBox == \E other \in Boxes : Envelop(other)

SpecBox == InitBox /\ [][NextBox]_vars

Enveloped == inp.kind = "box" /\ call = "BoundingBox::envelop"

\* C27: enveloping a box a second time leaves the accumulator as it was after
\* the first time, and enveloping a then b gives the box of b then a
C27_EnvelopAlgebra ==
  Enveloped =>
    /\ (Len(inp.boxes) >= 2
        /\ inp.boxes[Len(inp.boxes)] = inp.boxes[Len(inp.boxes) - 1]) =>
          out.val = out.before
    /\ out.val = out.reversed

C27_Witness ==
  /\ Enveloped
  /\ inp.start = BoundingBox(Mm(-2), Mm(4), Mm(0), Mm(5))
  /\ inp.boxes = <<BoundingBox(Mm(0), Mm(0), Mm(2), Mm(1)),
                   BoundingBox(Mm(-1), Mm(-3), Mm(3), Mm(2))>>
  /\ out.val = BoundingBox(Mm(-2), Mm(-3), Mm(3), Mm(5))
  /\ out.reversed = out.val

\* C28: the box of a graphic enveloped into a fresh default box gives exactly
\* the box of the graphic
C28_DefaultIdentity ==
  (Enveloped /\ inp.start = BoundingBox_default /\ Len(inp.boxes) = 1
   /\ inp.boxes[1] \in GraphicBoxes) =>
    out.val = inp.boxes[1]

\* C29: a call of envelop never raises min_x or min_y and never lowers max_x
\* or max_y, and the accumulator contains every box enveloped so far
C29_Monotonic ==
  Enveloped =>
    /\ out.val.min_x <= out.before.min_x
    /\ out.val.min_y <= out.before.min_y
    /\ out.val.max_x >= out.before.max_x
    /\ out.val.max_y >= out.before.max_y
    /\ \A i \in 1..Len(inp.boxes) :
         /\ out.val.min_x <= inp.boxes[i].min_x
         /\ out.val.min_y <= inp.boxes[i].min_y
         /\ out.val.max_x >= inp.boxes[i].max_x
         /\ out.val.max_y >= inp.boxes[i].max_y

C29_Witness ==
  /\ Enveloped
  /\ inp.start = BoundingBox_default
  /\ inp.boxes = <<BoundingBox(Mm(-1), Mm(-3), Mm(3), Mm(2)),
                   BoundingBox(Mm(0), Mm(0), Mm(2), Mm(1))>>
  /\ out.before = BoundingBox(Mm(-1), Mm(-3), Mm(3), Mm(2))
  /\ out.val = out.before

(***************************************************************************)
(* Two calls of parse_pcb_file on one text                                 *)
(***************************************************************************)
TwiceMenu == {"NET1", "BADNET", "FP", "GRLINE", "GRLINEUUID"}

gr_line == <<"g", "r">> \o Kw._line

TwiceFieldNode(id) ==
  CASE id = "GRLINE" -> GraphicNode(gr_line, <<"START", "END">>)
    [] id = "GRLINEUUID" ->
         SList(<<Sym(gr_line), PointNode(Kw.start, LineStart), PointNode(Kw.end, LineEnd),
                 SList(<<Sym(Kw.uuid), Str(<<"1">>)>>)>>)
    [] OTHER -> BoardFieldNode(id)

TwiceInputs == [kind : {"twice"}, fields : DistinctSeqs(TwiceMenu, MaxBoardFields)]

InitTwice ==
  /\ inp \in TwiceInputs
  /\ text = Unparse(SList(<<Sym(Kw.kicad_pcb)>> \o Map(TwiceFieldNode, inp.fields)))
  /\ call = "none"
  /\ pc = "ready"
  /\ out = [kind |-> "none"]
  /\ now = 1

\* the system clock advances before a call of parse_pcb_file
Elapse ==
  /\ inp.kind = "twice"
  /\ pc \in {"ready", "once"}
  /\ now < MaxClock
  /\ now' = now + 1
  /\ UNCHANGED <<inp, text, call, pc, out>>

\* let first = parse_pcb_file(text)
ParseFirst ==
  /\ inp.kind = "twice"
  /\ pc = "ready"
  /\ pc' = "once"
  /\ call' = "parse_pcb_file"
  /\ out' = [kind |-> "twice", first |-> parse_pcb_file(text), second |-> [kind |-> "none"]]
  /\ UNCHANGED <<inp, text, now>>

\* let second = parse_pcb_file(text)
ParseSecond ==
  /\ inp.kind = "twice"
  /\ pc = "once"
  /\ pc' = "done"
  /\ out' = [out EXCEPT !.second = parse_pcb_file(text)]
  /\ UNCHANGED <<inp, text, call, now>>

NextTwice == Elapse \/ ParseFirst \/ ParseSecond

SpecTwice == InitTwice /\ [][NextTwice]_vars

\* C30: two calls of parse_pcb_file on the same text return equal results,
\* also when the text has graphics without uuid
C30_ParseTwice ==
  (inp.kind = "twice" /\ pc = "done") => out.first = out.second

====
